---- MODULE Spec2Model ----
(***************************************************************************)
(* Inventory valuation and reporting of NMDPRA_IMS.                        *)
(*                                                                         *)
(*   app/report/utils.py   calculate_periodic_wac_valuation                *)
(*   app/report/views.py   generate_report, get_quarterly_dates,           *)
(*                         get_yearly_dates, inventory_report              *)
(*                                                                         *)
(* The InventoryTransaction table is the ledger.  A row is a record        *)
(*   [inventory_id, transaction_type, quantity, unit_price, timestamp,     *)
(*    location]                                                            *)
(* where location is Request.location of the row's related request (the    *)
(* outer join of the valuation query).  A nullable column holds <<>> for   *)
(* NULL and <<v>> for the value v.  Timestamps are integers (a count of    *)
(* time units); the valuation only compares them.                          *)
(***************************************************************************)
EXTENDS Integers, Sequences, FiniteSets, TLC

VARIABLES
    transactions,   \* InventoryTransaction rows, in ORDER BY timestamp ASC order
    inventory,      \* Inventory rows (joined with Category), in query order
    valuation,      \* the last call of calculate_periodic_wac_valuation
    report,         \* the last call of generate_report
    window,         \* the last call of get_quarterly_dates / get_yearly_dates
    calls,          \* the invocations of the valuation in flight, one per worker
    cache,          \* ReportCache rows
    response,       \* the last request to a view of app/report/views.py
    command         \* the last run of a command of reprocess_stock.py

vars == <<transactions, inventory, valuation, report, window,
          calls, cache, response, command>>

NULL == <<>>
Some(v) == <<v>>

(***************************************************************************)
(* decimal.Decimal under Python's default context, ROUND_HALF_EVEN.  A     *)
(* Decimal is [c |-> coefficient, e |-> exponent], value c * 10^e, kept    *)
(* without trailing zeros so that equal records are equal numbers (Python  *)
(* compares Decimals by value).  Every arithmetic result is rounded to     *)
(* DecPrec significant digits.  Python's context has 28 digits; TLC's      *)
(* integers are 32 bits wide, so the model runs the same arithmetic at     *)
(* DecPrec digits and keeps every integer quantity below 10^DecPrec, as    *)
(* the program's integer quantities are below 10^28.                       *)
(***************************************************************************)
DecPrec == 4

Abs(n) == IF n < 0 THEN -n ELSE n
Sign(n) == IF n < 0 THEN -1 ELSE 1
Min(a, b) == IF a < b THEN a ELSE b

RECURSIVE Pow10(_)
Pow10(n) == IF n <= 0 THEN 1 ELSE 10 * Pow10(n - 1)

RECURSIVE NumDigits(_)
NumDigits(n) == IF n < 10 THEN 1 ELSE 1 + NumDigits(n \div 10)

RECURSIVE DecNormalize(_, _)
DecNormalize(c, e) ==
    IF c = 0 THEN [c |-> 0, e |-> 0]
    ELSE IF Abs(c) % 10 = 0 THEN DecNormalize(Sign(c) * (Abs(c) \div 10), e + 1)
    ELSE [c |-> c, e |-> e]

\* n >= 0 with its k >= 1 low digits dropped, rounding half to even; sticky
\* says that digits below n (of a quotient) are not all zero.
RoundHalfEven(n, k, sticky) ==
    IF \/ n % Pow10(k) > 5 * Pow10(k - 1)
       \/ /\ n % Pow10(k) = 5 * Pow10(k - 1)
          /\ sticky \/ (n \div Pow10(k)) % 2 = 1
    THEN n \div Pow10(k) + 1
    ELSE n \div Pow10(k)

\* sign * n * 10^e with the k low digits of n rounded away, if k > 0.
DecRoundBy(sign, n, e, sticky, k) ==
    IF k <= 0 THEN DecNormalize(sign * n, e)
    ELSE DecNormalize(sign * RoundHalfEven(n, k, sticky), e + k)

\* sign * n * 10^e rounded to the context precision.
DecRound(sign, n, e, sticky) ==
    DecRoundBy(sign, n, e, sticky, NumDigits(n) - DecPrec)

\* The exact value s * 10^e, rounded.
DecOfSigned(s, e) == DecRound(Sign(s), Abs(s), e, FALSE)

\* Decimal(i) of an int: exact, the constructor does not round.
DecOfInt(i) == DecNormalize(i, 0)

DecZero == [c |-> 0, e |-> 0]

DecAdd(a, b) ==
    DecOfSigned(a.c * Pow10(a.e - Min(a.e, b.e)) + b.c * Pow10(b.e - Min(a.e, b.e)),
                Min(a.e, b.e))

DecMul(a, b) == DecOfSigned(a.c * b.c, a.e + b.e)

\* The least k >= 0 for which n * 10^k \div d has more than DecPrec digits.
RECURSIVE DivShift(_, _, _)
DivShift(n, d, k) ==
    IF (n * Pow10(k)) \div d >= Pow10(DecPrec) THEN k ELSE DivShift(n, d, k + 1)

\* a / b for b # 0: the exact quotient when it has at most DecPrec digits,
\* else the quotient correctly rounded.
\* sign * (n / d) * 10^e, from the quotient and remainder of n * 10^k by d.
DecQuotient(sign, n, d, e, k) ==
    DecRound(sign, (n * Pow10(k)) \div d, e - k, (n * Pow10(k)) % d # 0)

DecDiv(a, b) ==
    IF a.c = 0 THEN DecZero
    ELSE DecQuotient(Sign(a.c) * Sign(b.c), Abs(a.c), Abs(b.c), a.e - b.e,
                     DivShift(Abs(a.c), Abs(b.c), 0))


(***************************************************************************)
(* The ledger.                                                             *)
(***************************************************************************)
Row(item, type, qty, price, ts, loc) ==
    [inventory_id |-> item, transaction_type |-> type, quantity |-> qty,
     unit_price |-> price, timestamp |-> ts, location |-> loc]

\* The request locations: the two stores the report has a column for, and one
\* it has none for.
Locations == {Some("Headquarters"), Some("Jabi"), Some("Lagos"), NULL}

\* What a producer writes: [type, quantity, unit_price, location].  An initial
\* row of the stock import carries a price, one of reprocess-stock none.
TxnShapes ==
    {<<"initial", Some(100), Some(10), NULL>>,
     <<"initial", Some(100), Some(5), NULL>>,
     <<"initial", Some(30), NULL, NULL>>,
     <<"purchase", Some(50), Some(12), NULL>>,
     <<"price_update", Some(0), Some(8), NULL>>,
     <<"adjustment", Some(-5), NULL, NULL>>}
    \cup {<<"issue", Some(-30), NULL, l>> : l \in Locations}

\* Days of a month, as timestamps at midnight: the days rows are written on,
\* and the first and last days of the windows valued (day 1 to 15, day 16 to
\* 31, and the whole month).
Times == {1, 15, 20}
WindowStarts == {1, 16}
WindowEnds == {15, 31}

MaxTxns == 3

ValuedItem == 1
OtherItem == 2

InsertAt(seq, pos, row) ==
    SubSeq(seq, 1, pos) \o <<row>> \o SubSeq(seq, pos + 1, Len(seq))

\* A place for row that keeps the table in timestamp order; rows of one
\* timestamp are in whatever order the store returns them.
InOrderAt(seq, pos, row) ==
    /\ \A i \in 1..pos : seq[i].timestamp <= row.timestamp
    /\ \A i \in (pos + 1)..Len(seq) : row.timestamp <= seq[i].timestamp

RowsOf(seq, item) == SelectSeq(seq, LAMBDA t : t.inventory_id = item)

(***************************************************************************)
(* calculate_periodic_wac_valuation (app/report/utils.py)                  *)
(***************************************************************************)
RECURSIVE SumQuantity(_)
SumQuantity(rows) ==
    IF rows = <<>> THEN 0 ELSE Head(rows).quantity[1] + SumQuantity(Tail(rows))

\* Decimal(t.unit_price or '0.0')
PriceOrZero(t) ==
    IF t.unit_price = NULL \/ t.unit_price = Some(0) THEN DecZero
    ELSE DecOfInt(t.unit_price[1])

\* Decimal(t.quantity) * Decimal(t.unit_price or '0.0')
RowValue(t) == DecMul(DecOfInt(t.quantity[1]), PriceOrZero(t))

PricedKinds == {"initial", "purchase", "price_update"}

\* Mutant: the scan runs forward and stops at the first priced row.
RECURSIVE LastKnownPrice_Forward(_)
LastKnownPrice_Forward(before) ==
    IF before = <<>> THEN DecZero
    ELSE IF /\ Head(before).transaction_type \in PricedKinds
            /\ Head(before).unit_price # NULL
    THEN DecOfInt(Head(before).unit_price[1])
    ELSE LastKnownPrice_Forward(Tail(before))

\* lines 41-44: the unit_price of the last priced row before the window.
RECURSIVE LastKnownPrice(_)
LastKnownPrice(before) ==
    IF before = <<>> THEN DecZero
    ELSE IF /\ before[Len(before)].transaction_type \in PricedKinds
            /\ before[Len(before)].unit_price # NULL
    THEN DecOfInt(before[Len(before)].unit_price[1])
    ELSE LastKnownPrice(SubSeq(before, 1, Len(before) - 1))

\* Mutant: the initial rows of the window are not added ahead of the replay.
AddInitialValue_Skipped(cost, initials) == cost

\* lines 58-60: the value of the initial rows of the window, added first.
RECURSIVE AddInitialValue(_, _)
AddInitialValue(cost, initials) ==
    IF initials = <<>> THEN cost
    ELSE AddInitialValue(DecAdd(cost, RowValue(Head(initials))), Tail(initials))

\* Mutant: a price_update adds the re-priced stock to the cost basis.
ReplayStep_Averaging(acc, t) ==
    IF t.transaction_type \in {"initial", "purchase"}
    THEN [cost_of_goods_available |->
              DecAdd(acc.cost_of_goods_available, RowValue(t)),
          qty_available |-> acc.qty_available + t.quantity[1]]
    ELSE IF t.transaction_type = "price_update"
    THEN [cost_of_goods_available |->
              DecAdd(acc.cost_of_goods_available,
                     DecMul(DecOfInt(acc.qty_available), PriceOrZero(t))),
          qty_available |-> acc.qty_available]
    ELSE acc

\* lines 63-69: one row of the replay; acc is [cost_of_goods_available,
\* qty_available].
ReplayStep(acc, t) ==
    IF t.transaction_type \in {"initial", "purchase"}
    THEN [cost_of_goods_available |->
              DecAdd(acc.cost_of_goods_available, RowValue(t)),
          qty_available |-> acc.qty_available + t.quantity[1]]
    ELSE IF t.transaction_type = "price_update"
    THEN [cost_of_goods_available |->
              DecMul(DecOfInt(acc.qty_available), PriceOrZero(t)),
          qty_available |-> acc.qty_available]
    ELSE acc

\* lines 62-69: the replay of the window's rows, in order.
RECURSIVE Replay(_, _)
Replay(acc, during) ==
    IF during = <<>> THEN acc
    ELSE Replay(ReplayStep(acc, Head(during)), Tail(during))

\* Mutant: with nothing available the price is zero.
PeriodWac_ZeroFallback(cost_of_goods_available, qty_available, last_known_price) ==
    IF qty_available > 0
    THEN DecDiv(cost_of_goods_available, DecOfInt(qty_available))
    ELSE DecZero

\* line 71
PeriodWac(cost_of_goods_available, qty_available, last_known_price) ==
    IF qty_available > 0
    THEN DecDiv(cost_of_goods_available, DecOfInt(qty_available))
    ELSE last_known_price

OfKind(rows, kind) == SelectSeq(rows, LAMBDA t : t.transaction_type = kind)

\* Mutant: the sum of the issues is reported as it is, without abs().
IssuesAt_Signed(during, loc) ==
    SumQuantity(SelectSeq(during, LAMBDA t :
        t.transaction_type = "issue" /\ t.location = loc))

\* lines 79, 80: abs(sum(...)) of the issues of one location.
IssuesAt(during, loc) ==
    Abs(SumQuantity(SelectSeq(during, LAMBDA t :
            t.transaction_type = "issue" /\ t.location = loc)))

\* line 82: abs(sum(...)) of the issues with no location.
OtherIssues(during) ==
    Abs(SumQuantity(SelectSeq(during, LAMBDA t :
            t.transaction_type = "issue" /\ t.location = NULL)))

\* Mutant: the query does not filter by item.
FetchTransactions_AllItems(table, inventory_id, end_date) ==
    SelectSeq(table, LAMBDA t : t.timestamp <= end_date)

\* lines 15-30: the query, over a table kept in timestamp order.
FetchTransactions(table, inventory_id, end_date) ==
    SelectSeq(table, LAMBDA t : /\ t.inventory_id = inventory_id
                                /\ t.timestamp <= end_date)

\* line 37
TxnsBefore(txns, start_date) ==
    SelectSeq(txns, LAMBDA t : t.timestamp < start_date)

\* line 51
TxnsDuring(txns, start_date) ==
    SelectSeq(txns, LAMBDA t : start_date <= t.timestamp)

\* Mutant: the adjustments are left out of the closing quantity.
ClosingStock_NoAdjustments(qty_available, total_issued_qty, adjustments) ==
    qty_available - total_issued_qty

\* line 88
ClosingStock(qty_available, total_issued_qty, adjustments) ==
    qty_available - total_issued_qty + adjustments

\* The arithmetic on a NULL quantity raises TypeError: sum() over the rows
\* before the window (line 47), Decimal(t.quantity) of an initial or purchase
\* row (lines 60, 64), sum() over the purchase, initial, adjustment rows and
\* over the issues of the three locations summed (lines 74-85).  The quantity
\* of a price_update row of the window, and of an issue of another location,
\* is never read.
QuantityRead(t, start_date) ==
    \/ t.timestamp < start_date
    \/ t.transaction_type \in {"initial", "purchase", "adjustment"}
    \/ /\ t.transaction_type = "issue"
       /\ t.location \in {Some("Headquarters"), Some("Jabi"), NULL}

ValuationRaises(table, inventory_id, start_date, end_date) ==
    \E i \in 1..Len(table) :
        /\ table[i].inventory_id = inventory_id
        /\ table[i].timestamp <= end_date
        /\ table[i].quantity = NULL
        /\ QuantityRead(table[i], start_date)

\* The locals of the function when it does not raise, each group of lines
\* adding its locals to the record l of those before it.

\* lines 37, 51
SplitLedger(txns, start_date) ==
    [txns_before |-> TxnsBefore(txns, start_date),
     txns_during |-> TxnsDuring(txns, start_date)]

\* Mutant: only the rows that add stock count in the opening quantity.
OpeningQuantity_AdditionsOnly(l) ==
    l @@ [last_known_price |-> LastKnownPrice(l.txns_before),
          opening_stock_qty |->
              SumQuantity(SelectSeq(l.txns_before, LAMBDA t :
                  t.transaction_type \in {"initial", "purchase"}))]

\* The rows from the last initial row on, all rows when there is none.
RECURSIVE SinceLastInitial(_)
SinceLastInitial(rows) ==
    IF rows = <<>> THEN <<>>
    ELSE IF rows[Len(rows)].transaction_type = "initial" THEN <<rows[Len(rows)]>>
    ELSE Append(SinceLastInitial(SubSeq(rows, 1, Len(rows) - 1)), rows[Len(rows)])

\* Mutant: an initial row starts the count of the opening quantity anew.
OpeningQuantity_ResetAtInitial(l) ==
    l @@ [last_known_price |-> LastKnownPrice(l.txns_before),
          opening_stock_qty |-> SumQuantity(SinceLastInitial(l.txns_before))]

\* lines 33-35, 39-47
OpeningQuantity(l) ==
    l @@ [last_known_price |-> LastKnownPrice(l.txns_before),
          opening_stock_qty |-> SumQuantity(l.txns_before)]

\* lines 34, 48
OpeningValue(l) ==
    l @@ [opening_stock_value |->
              DecMul(DecOfInt(l.opening_stock_qty), l.last_known_price)]

\* lines 54-69
GoodsAvailable(l) ==
    l @@ Replay([cost_of_goods_available |->
                     AddInitialValue(l.opening_stock_value,
                                     OfKind(l.txns_during, "initial")),
                 qty_available |-> l.opening_stock_qty],
                l.txns_during)

\* Mutant: the initial rows of the window are not counted as additions.
PeriodCost_PurchasesOnly(l) ==
    l @@ [period_wac |-> PeriodWac(l.cost_of_goods_available, l.qty_available,
                                   l.last_known_price),
          total_additions_qty |->
              SumQuantity(OfKind(l.txns_during, "purchase"))]

\* lines 71-76
PeriodCost(l) ==
    l @@ [period_wac |-> PeriodWac(l.cost_of_goods_available, l.qty_available,
                                   l.last_known_price),
          total_additions_qty |->
              SumQuantity(OfKind(l.txns_during, "purchase"))
              + SumQuantity(OfKind(l.txns_during, "initial"))]

\* lines 79-82, 85
IssuesAndAdjustments(l) ==
    l @@ [hq_issues |-> IssuesAt(l.txns_during, Some("Headquarters")),
          jabi_issues |-> IssuesAt(l.txns_during, Some("Jabi")),
          other_issues |-> OtherIssues(l.txns_during),
          adjustments |-> SumQuantity(OfKind(l.txns_during, "adjustment"))]

\* line 83
TotalIssued(l) ==
    l @@ [total_issued_qty |-> l.hq_issues + l.jabi_issues + l.other_issues]

\* line 88
ClosingQuantity(l) ==
    l @@ [closing_stock_qty |->
              ClosingStock(l.qty_available, l.total_issued_qty, l.adjustments)]

\* Mutant: the closing stock and the issues are valued at the opening price.
ClosingValue_LastKnownPrice(l) ==
    l @@ [closing_stock_value |->
              DecMul(DecOfInt(l.closing_stock_qty), l.last_known_price),
          cogs |-> DecMul(DecOfInt(l.total_issued_qty), l.last_known_price)]

\* lines 89-90
ClosingValue(l) ==
    l @@ [closing_stock_value |->
              DecMul(DecOfInt(l.closing_stock_qty), l.period_wac),
          cogs |-> DecMul(DecOfInt(l.total_issued_qty), l.period_wac)]

ValuationLocals(table, inventory_id, start_date, end_date) ==
    ClosingValue(ClosingQuantity(TotalIssued(IssuesAndAdjustments(PeriodCost(
        GoodsAvailable(OpeningValue(OpeningQuantity(
            SplitLedger(FetchTransactions(table, inventory_id, end_date),
                        start_date)))))))))

\* lines 92-102: the returned dict.
ReturnedDict(l) ==
    [opening_stock |-> l.opening_stock_qty,
     purchases |-> l.total_additions_qty,
     adjustments |-> l.adjustments,
     hq_issues |-> l.hq_issues,
     jabi_issues |-> l.jabi_issues,
     closing_stock |-> l.closing_stock_qty,
     unit_price |-> l.period_wac,
     total_value |-> l.closing_stock_value,
     cogs |-> l.cogs]

calculate_periodic_wac_valuation(table, inventory_id, start_date, end_date) ==
    ReturnedDict(ValuationLocals(table, inventory_id, start_date, end_date))


(***************************************************************************)
(* The Inventory table, joined with Category.                              *)
(***************************************************************************)
Item(id, category_id, category_name, created_at) ==
    [id |-> id, category_id |-> category_id, category_name |-> category_name,
     created_at |-> created_at]

\* The dict of an item with no rows.
ZeroValuation ==
    [opening_stock |-> 0, purchases |-> 0, adjustments |-> 0, hq_issues |-> 0,
     jabi_issues |-> 0, closing_stock |-> 0, unit_price |-> DecZero,
     total_value |-> DecZero, cogs |-> DecZero]

NoValuation ==
    [called |-> FALSE, inventory_id |-> 0, start_date |-> 0, end_date |-> 0,
     raised |-> FALSE, result |-> ZeroValuation]

(***************************************************************************)
(* generate_report (app/report/views.py)                                   *)
(***************************************************************************)
VolumeLimit == 5000

\* filters.get(key): a filter that is None or 0 is not applied.
Truthy(x) == x # NULL /\ x # Some(0)

\* Mutant: the query does not look at created_at.
ResolveItems_AnyCreation(inv, end_dt, filters) ==
    SelectSeq(inv, LAMBDA item :
        /\ Truthy(filters.category_id) => item.category_id = filters.category_id[1]
        /\ Truthy(filters.item_id) => item.id = filters.item_id[1])

\* lines 553-557, 562: the items the query resolves, in query order.
ResolveItems(inv, end_dt, filters) ==
    SelectSeq(inv, LAMBDA item :
        /\ item.created_at <= end_dt
        /\ Truthy(filters.category_id) => item.category_id = filters.category_id[1]
        /\ Truthy(filters.item_id) => item.id = filters.item_id[1])

\* Mutant: the limit is reached at 5000 items.
ExceedsLimit_AtLimit(count) == count >= VolumeLimit

\* line 559
ExceedsLimit(count) == count > VolumeLimit

TotalFields ==
    {"opening_stock", "purchases", "adjustments", "hq_issues", "jabi_issues",
     "closing_stock", "total_value"}

\* lines 570-578
totals_template == [f \in TotalFields |-> DecZero]

\* Decimal(value) of a field of an item record: an int quantity, or the
\* Decimal total_value.
ToDecimal(f, value) == IF f = "total_value" THEN value ELSE DecOfInt(value)

\* lines 587-599
ItemReportData(item, v) ==
    [item_id |-> item.id,
     category_name |-> item.category_name,
     unit_price |-> v.unit_price,
     opening_stock |-> v.opening_stock,
     purchases |-> v.purchases,
     adjustments |-> v.adjustments,
     hq_issues |-> v.hq_issues,
     jabi_issues |-> v.jabi_issues,
     closing_stock |-> v.closing_stock,
     total_value |-> v.total_value]

\* lines 610-614: totals[key] += Decimal(value) for the keys of the totals.
AddToTotals(totals, rec) ==
    [f \in TotalFields |-> DecAdd(totals[f], ToDecimal(f, rec[f]))]

\* Mutant: the totals of a new category start from the running grand
\* totals.
OpenCategory_FromGrandTotals(acc, name) ==
    IF name \in DOMAIN acc.category_totals THEN acc
    ELSE [order |-> Append(acc.order, name),
          category_totals |-> acc.category_totals @@ (name :> acc.grand_totals),
          grand_totals |-> acc.grand_totals]

\* lines 601-605: the first item of a category opens its list and its
\* totals.  acc is [order, category_totals, grand_totals]: the category names
\* in the order the dicts hold them, and the two totals.
OpenCategory(acc, name) ==
    IF name \in DOMAIN acc.category_totals THEN acc
    ELSE [order |-> Append(acc.order, name),
          category_totals |-> acc.category_totals @@ (name :> totals_template),
          grand_totals |-> acc.grand_totals]

\* lines 610-614
AddRecord(acc, rec) ==
    [order |-> acc.order,
     category_totals |->
         [acc.category_totals EXCEPT ![rec.category_name] = AddToTotals(@, rec)],
     grand_totals |-> AddToTotals(acc.grand_totals, rec)]

\* lines 601-614: one item record taken into the running totals.
Accumulate(acc, rec) == AddRecord(OpenCategory(acc, rec.category_name), rec)

\* lines 582-614: the loop over records lo..hi, each step taken before the
\* next: the first half of the range, then the second half from its totals.
RECURSIVE AccumulateRange(_, _, _, _)
AccumulateRange(acc, records, lo, hi) ==
    IF lo > hi THEN acc
    ELSE IF lo = hi THEN Accumulate(acc, records[lo])
    ELSE CHOOSE totals \in
             {AccumulateRange(half, records, (lo + hi) \div 2 + 1, hi) :
                 half \in {AccumulateRange(acc, records, lo, (lo + hi) \div 2)}} :
             TRUE

EmptyDict == [c \in {} |-> 0]

\* Mutant: an empty item set falls through to the totals.
EmptyReport_ZeroTotals ==
    [outcome |-> "returned", valuations |-> 0, report_data |-> EmptyDict,
     order |-> <<>>, category_totals |-> EmptyDict,
     grand_totals |-> totals_template]

\* line 564: return {}, {}, {}
EmptyReport ==
    [outcome |-> "returned", valuations |-> 0, report_data |-> EmptyDict,
     order |-> <<>>, category_totals |-> EmptyDict, grand_totals |-> EmptyDict]

\* An outcome that returns nothing: abort(413) of line 560, or the exception
\* of a valuation, which generate_report does not catch.
NoReturn(outcome, valuations) ==
    [outcome |-> outcome, valuations |-> valuations, report_data |-> EmptyDict,
     order |-> <<>>, category_totals |-> EmptyDict, grand_totals |-> EmptyDict]

\* The places in items of the items whose valuation raises.
Failing(items, table, start_dt, end_dt) ==
    {i \in 1..Len(items) :
        ValuationRaises(table, items[i].id, start_dt, end_dt)}

Least(places) == CHOOSE i \in places : \A j \in places : i <= j

\* lines 582-599: the record of every item.
ItemRecords(items, table, start_dt, end_dt) ==
    [i \in 1..Len(items) |->
        ItemReportData(items[i],
            calculate_periodic_wac_valuation(table, items[i].id, start_dt, end_dt))]

\* lines 601-608, 616: report_data lists the records of each category.
ReturnedReport(records, acc) ==
    [outcome |-> "returned",
     valuations |-> Len(records),
     report_data |->
         [c \in DOMAIN acc.category_totals |->
             SelectSeq(records, LAMBDA r : r.category_name = c)],
     order |-> acc.order,
     category_totals |-> acc.category_totals,
     grand_totals |-> acc.grand_totals]

\* lines 566-616, over the records of the items.
ReportOf(records) ==
    ReturnedReport(records,
        AccumulateRange([order |-> <<>>, category_totals |-> EmptyDict,
                         grand_totals |-> totals_template],
                        records, 1, Len(records)))

\* lines 566-616, for a non-empty item set: the loop has no handler, the
\* exception of the first failing valuation leaves generate_report.
AggregateItems(items, table, start_dt, end_dt) ==
    IF Failing(items, table, start_dt, end_dt) # {}
    THEN NoReturn("raised", Least(Failing(items, table, start_dt, end_dt)))
    ELSE ReportOf(ItemRecords(items, table, start_dt, end_dt))

\* lines 559-616, over the items resolved.
ReportOfItems(items, table, start_dt, end_dt) ==
    IF ExceedsLimit(Len(items)) THEN NoReturn("abort_413", 0)
    ELSE IF items = <<>> THEN EmptyReport
    ELSE AggregateItems(items, table, start_dt, end_dt)

\* lines 549-616
generate_report(inv, table, start_dt, end_dt, filters) ==
    ReportOfItems(ResolveItems(inv, end_dt, filters), table, start_dt, end_dt)

NoFilters == [category_id |-> NULL, item_id |-> NULL]

NoReport ==
    [called |-> FALSE, start_dt |-> 0, end_dt |-> 0, filters |-> NoFilters,
     result |-> NoReturn("", 0)]

(***************************************************************************)
(* datetime values of the date-window functions (app/report/views.py): a   *)
(* date at midnight, [year, month, day].                                   *)
(***************************************************************************)
IsLeap(year) == year % 4 = 0 /\ (year % 100 # 0 \/ year % 400 = 0)

DaysInMonth(year, month) ==
    IF month = 2 THEN (IF IsLeap(year) THEN 29 ELSE 28)
    ELSE IF month \in {4, 6, 9, 11} THEN 30 ELSE 31

\* The arguments datetime(year, month, day) accepts without ValueError.
ValidDate(year, month, day) ==
    /\ year \in 1..9999
    /\ month \in 1..12
    /\ day \in 1..DaysInMonth(year, month)

datetime(year, month, day) == [year |-> year, month |-> month, day |-> day]

\* a < b and a <= b of two datetimes.
DtLess(a, b) ==
    \/ a.year < b.year
    \/ a.year = b.year /\ a.month < b.month
    \/ a.year = b.year /\ a.month = b.month /\ a.day < b.day

DtLeq(a, b) == a = b \/ DtLess(a, b)

\* lines 393-398
quarter_starts(year) ==
    <<<<datetime(year, 1, 1), datetime(year, 3, 31)>>,
      <<datetime(year, 4, 1), datetime(year, 6, 30)>>,
      <<datetime(year, 7, 1), datetime(year, 9, 30)>>,
      <<datetime(year, 10, 1), datetime(year, 12, 31)>>>>

\* list[i] of Python, for a TLA+ sequence: a negative index counts from the
\* end, an index outside the list raises IndexError.
IndexRaises(list, i) == i >= Len(list) \/ i < -Len(list)

ListGet(list, i) == IF i >= 0 THEN list[i + 1] ELSE list[Len(list) + i + 1]

\* Mutant: the quarter is used as the index of the list.
get_quarterly_dates_OffByOne(year, quarter) ==
    ListGet(quarter_starts(year), quarter % 4)

\* line 399, for a quarter the index of which is in the list.
get_quarterly_dates(year, quarter) ==
    ListGet(quarter_starts(year), quarter - 1)

\* Mutant: the year ends on December 30.
get_yearly_dates_Short(year) ==
    <<datetime(year, 1, 1), datetime(year, 12, 30)>>

\* line 412
get_yearly_dates(year) ==
    <<datetime(year, 1, 1), datetime(year, 12, 31)>>

NoDate == datetime(0, 0, 0)

NoWindow ==
    [called |-> FALSE, function |-> "", year |-> 0, quarter |-> 0,
     raised |-> FALSE, start |-> NoDate, end |-> NoDate]

(***************************************************************************)
(* Moments of time on one scale.  A datetime is counted in half days since *)
(* the end of 2023: January 1, 2024 at midnight is 2, at noon 3.  The      *)
(* windows of inventory_report are datetimes at midnight; datetime.now()   *)
(* is any moment.                                                          *)
(***************************************************************************)
RECURSIVE DaysBeforeMonth(_, _)
DaysBeforeMonth(year, month) ==
    IF month <= 1 THEN 0
    ELSE DaysBeforeMonth(year, month - 1) + DaysInMonth(year, month - 1)

RECURSIVE DaysBeforeYear(_)
DaysBeforeYear(year) ==
    IF year <= 2024 THEN 0
    ELSE DaysBeforeYear(year - 1) + (IF IsLeap(year - 1) THEN 366 ELSE 365)

DayNumber(d) == DaysBeforeYear(d.year) + DaysBeforeMonth(d.year, d.month) + d.day

\* The moment of a datetime at midnight.
Timestamp(d) == DayNumber(d) * 2

\* d + timedelta(days=1), d - timedelta(days=1)
NextDay(d) ==
    IF d.day < DaysInMonth(d.year, d.month) THEN datetime(d.year, d.month, d.day + 1)
    ELSE IF d.month < 12 THEN datetime(d.year, d.month + 1, 1)
    ELSE datetime(d.year + 1, 1, 1)

PrevDay(d) ==
    IF d.day > 1 THEN datetime(d.year, d.month, d.day - 1)
    ELSE IF d.month > 1
    THEN datetime(d.year, d.month - 1, DaysInMonth(d.year, d.month - 1))
    ELSE datetime(d.year - 1, 12, 31)

\* d + timedelta(days=n)
RECURSIVE AddDays(_, _)
AddDays(d, n) ==
    IF n = 0 THEN d
    ELSE IF n > 0 THEN AddDays(NextDay(d), n - 1)
    ELSE AddDays(PrevDay(d), n + 1)

(***************************************************************************)
(* The window of a report request (inventory_report, lines 93-123).  A     *)
(* form field is NULL when it is missing or empty.  The text of a date,    *)
(* "YYYY-MM-DD", is <<year, month, day>>, of a month, "YYYY-MM", is        *)
(* <<year, month>>; a week range is the list of the texts that             *)
(* week_range.split("to") gives.  The text of an integer is the integer.   *)
(***************************************************************************)
Window(start_dt, end_dt) == [raised |-> "", start_dt |-> start_dt, end_dt |-> end_dt]

WindowRaises(exception) == [raised |-> exception, start_dt |-> NoDate, end_dt |-> NoDate]

\* datetime.strptime(text, "%Y-%m-%d") raises ValueError for a text that is
\* no date of the calendar.
ParseRaises(text) == ~ValidDate(text[1], text[2], text[3])

strptime(text) == datetime(text[1], text[2], text[3])

\* line 101: next_month - timedelta(days=next_month.day)
MinusOwnDay(next_month) == AddDays(next_month, -next_month.day)

\* lines 100-101: the last day of the month of start_dt.
MonthEnd(start_dt) ==
    MinusOwnDay(AddDays(datetime(start_dt.year, start_dt.month, 28), 4))

\* lines 95-101
MonthlyWindow(form) ==
    IF form.month = NULL THEN WindowRaises("ValueError")
    ELSE IF ParseRaises(form.month[1] \o <<1>>) THEN WindowRaises("ValueError")
    ELSE Window(strptime(form.month[1] \o <<1>>),
                MonthEnd(strptime(form.month[1] \o <<1>>)))

\* lines 103-110
WeeklyWindow(form) ==
    IF form.week_range = NULL THEN WindowRaises("ValueError")
    ELSE IF Len(form.week_range[1]) = 1 THEN WindowRaises("ValueError")
    ELSE IF Len(form.week_range[1]) # 2 THEN WindowRaises("ValueError")
    ELSE IF ParseRaises(form.week_range[1][1]) \/ ParseRaises(form.week_range[1][2])
    THEN WindowRaises("ValueError")
    ELSE Window(strptime(form.week_range[1][1]), strptime(form.week_range[1][2]))

\* lines 112-116: int(None) raises TypeError, datetime(year, ...) ValueError
\* for a year outside 1..9999, the list index IndexError.
QuarterlyWindow(form) ==
    IF form.year = NULL \/ form.quarter = NULL THEN WindowRaises("TypeError")
    ELSE IF form.year[1] = 0 \/ form.quarter[1] = 0 THEN WindowRaises("ValueError")
    ELSE IF form.year[1] \notin 1..9999 THEN WindowRaises("ValueError")
    ELSE IF IndexRaises(quarter_starts(form.year[1]), form.quarter[1] - 1)
    THEN WindowRaises("IndexError")
    ELSE Window(get_quarterly_dates(form.year[1], form.quarter[1])[1],
                get_quarterly_dates(form.year[1], form.quarter[1])[2])

\* lines 118-121
YearlyWindow(form) ==
    IF form.year = NULL THEN WindowRaises("TypeError")
    ELSE IF form.year[1] = 0 THEN WindowRaises("ValueError")
    ELSE IF form.year[1] \notin 1..9999 THEN WindowRaises("ValueError")
    ELSE Window(get_yearly_dates(form.year[1])[1], get_yearly_dates(form.year[1])[2])

\* lines 94-123
DeriveWindow(form) ==
    IF form.report_type = "monthly" THEN MonthlyWindow(form)
    ELSE IF form.report_type = "weekly" THEN WeeklyWindow(form)
    ELSE IF form.report_type = "quarterly" THEN QuarterlyWindow(form)
    ELSE IF form.report_type = "yearly" THEN YearlyWindow(form)
    ELSE WindowRaises("ValueError")

(***************************************************************************)
(* The views of app/report/views.py.  A request is [view, method, user,    *)
(* form, report_id, clock]: clock lists the values the calls of            *)
(* datetime.now() return, in the order of the calls (lines 126, 130, 131). *)
(* A view returns [response, cache]: what the caller receives and the      *)
(* ReportCache rows it leaves.  The response lists in generated the calls  *)
(* of generate_report the view made.                                       *)
(***************************************************************************)
User(id, is_admin) == [id |-> id, is_admin |-> is_admin]

Request(view, method, user, form, report_id, clock) ==
    [view |-> view, method |-> method, user |-> user, form |-> form,
     report_id |-> report_id, clock |-> clock]

Response(req, status, target, flash, body, generated) ==
    [called |-> TRUE, request |-> req, status |-> status, target |-> target,
     flash |-> flash, body |-> body, generated |-> generated]

\* flash(message, category): the category, the fixed text and the text of
\* the exception put into it.
Flash(category, text, detail) ==
    <<[category |-> category, text |-> text, detail |-> detail]>>

\* Mutant: the view is open to every logged-in user.
NotPermitted_Never(user) == FALSE

\* lines 46, 203, 238: if not current_user.is_admin
NotPermitted(user) == ~user.is_admin

\* lines 47-48, 204-205
RedirectToDashboard(req, endpoint, text) ==
    Response(req, 302, endpoint, Flash("danger", text, ""), NULL, <<>>)

\* lines 53-64: the form, with no report.
RenderForm(req) ==
    Response(req, 200, "reports/inventory_report.html", <<>>, NULL, <<>>)

\* lines 189-194: every exception of the try block, with the exception's
\* text in the message.
ErrorResponse(req, exception, generated) ==
    Response(req, 302, "reports.inventory_report",
             Flash("danger",
                   "An internal error occurred while generating the report: ",
                   exception),
             NULL, generated)

\* lines 85-89
FiltersOf(form) == [category_id |-> form.category_id, item_id |-> form.item_id]

\* Mutant: the start of the window is not compared with the clock.
FutureStart_Ignored(start_dt, now) == FALSE

\* line 126
FutureStart(start_dt, now) == start_dt > now

\* Mutant: the end of the window is passed as derived.
ClampEnd_Unclamped(end_dt, now_compared, now_assigned) == end_dt

\* lines 130-131
ClampEnd(end_dt, now_compared, now_assigned) ==
    IF end_dt > now_compared THEN now_assigned ELSE end_dt

\* The call of generate_report of lines 137-139 and what it gave.
Generated(start_dt, end_dt, filters, now, result) ==
    [start_dt |-> start_dt, end_dt |-> end_dt, filters |-> filters,
     now |-> now, result |-> result]

\* lines 164-169, the dates as moments.
Meta(user, call) ==
    [generated_by |-> user.id, generated_at |-> call.now,
     start_date |-> call.start_dt, end_date |-> call.end_dt]

\* lines 175-179: the row of the new report, its id the next of the table.
NewCache(rows, user, call) ==
    [id |-> Len(rows) + 1, user_id |-> user.id,
     report_data |-> call.result.report_data,
     order |-> call.result.order,
     category_totals |-> call.result.category_totals,
     grand_totals |-> call.result.grand_totals,
     meta |-> Meta(user, call)]

\* lines 141-194, after generate_report: abort(413) raises an HTTPException
\* and a valuation its TypeError, both caught by line 189; an empty report
\* is rendered and not stored; any other is stored and redirected to.
AfterGenerate(req, rows, call) ==
    IF call.result.outcome = "abort_413"
    THEN [response |-> ErrorResponse(req, "413 Request Entity Too Large", <<call>>),
          cache |-> rows]
    ELSE IF call.result.outcome = "raised"
    THEN [response |-> ErrorResponse(req, "TypeError", <<call>>), cache |-> rows]
    ELSE IF call.result.report_data = EmptyDict
    THEN [response |->
              Response(req, 200, "reports/inventory_report.html",
                       Flash("warning",
                             "No data found for the selected report criteria. Please try different filters.",
                             ""),
                       NULL, <<call>>),
          cache |-> rows]
    ELSE [response |->
              Response(req, 302, "reports.view_report", <<>>,
                       NULL, <<call>>),
          cache |-> Append(rows, NewCache(rows, req.user, call))]

\* lines 125-139: the window against the clock, and the call.
CallGenerate(req, inv, table, rows, start_dt, end_dt) ==
    AfterGenerate(req, rows,
        Generated(start_dt, end_dt, FiltersOf(req.form), req.clock[3],
                  generate_report(inv, table, start_dt, end_dt, FiltersOf(req.form))))

\* lines 93-139
PostReport(req, inv, table, rows, w) ==
    IF w.raised # ""
    THEN [response |-> ErrorResponse(req, w.raised, <<>>), cache |-> rows]
    ELSE IF FutureStart(Timestamp(w.start_dt), req.clock[1])
    THEN [response |-> ErrorResponse(req, "ValueError", <<>>), cache |-> rows]
    ELSE CallGenerate(req, inv, table, rows, Timestamp(w.start_dt),
                      ClampEnd(Timestamp(w.end_dt), req.clock[2], req.clock[3]))

\* lines 31-194
inventory_report(req, inv, table, rows) ==
    IF NotPermitted(req.user)
    THEN [response |->
              RedirectToDashboard(req, "home.admin_dashboard",
                  "You do not have permission to access this page."),
          cache |-> rows]
    ELSE IF req.method = "GET"
    THEN [response |-> RenderForm(req), cache |-> rows]
    ELSE PostReport(req, inv, table, rows, DeriveWindow(req.form))

\* ReportCache.get_for_user(report_id, user_id): the rows of the id that the
\* user may see.
get_for_user(rows, report_id, user_id) ==
    SelectSeq(rows, LAMBDA row : row.id = report_id /\ row.user_id = user_id)

\* lines 207-228, 243-379, over the rows found: the cached report is the
\* body of the page or of the file.
ServeCached(req, found, target, text) ==
    IF found = <<>>
    THEN Response(req, 302, "reports.inventory_report",
                  Flash("warning", text, ""), NULL, <<>>)
    ELSE Response(req, 200, target, <<>>, Some(found[1]), <<>>)

\* lines 199-228
view_report(req, rows) ==
    IF NotPermitted(req.user)
    THEN RedirectToDashboard(req, "home.admin_dashboard",
             "You do not have permission to access this page.")
    ELSE ServeCached(req, get_for_user(rows, req.report_id, req.user.id),
                     "reports/inventory_report.html",
                     "Report not found or has expired.")

\* lines 233-379
download_excel_report(req, rows) ==
    IF NotPermitted(req.user)
    THEN RedirectToDashboard(req, "home.user_dashboard",
             "You do not have permission to perform this action.")
    ELSE ServeCached(req, get_for_user(rows, req.report_id, req.user.id),
                     "send_file",
                     "Report to download not found or has expired.")

NoForm ==
    [report_type |-> "", month |-> NULL, week_range |-> NULL, year |-> NULL,
     quarter |-> NULL, category_id |-> NULL, item_id |-> NULL]

NoResponse ==
    [called |-> FALSE,
     request |-> Request("", "", User(0, FALSE), NoForm, 0, <<0, 0, 0>>),
     status |-> 0, target |-> "", flash |-> <<>>, body |-> NULL,
     generated |-> <<>>]

(***************************************************************************)
(* The commands of app/management/commands/reprocess_stock.py.  The        *)
(* database is [items, table]: the Inventory rows, each with its item_name *)
(* and quantity, and the InventoryTransaction rows.  A command works on    *)
(* the session's view of the database and leaves it to the database when   *)
(* it commits.  The text of --target-date is <<year, month, day>>.         *)
(***************************************************************************)
ITEMS_TO_REPROCESS ==
    <<[name |-> "TP Link", stock |-> 30],
      [name |-> "APC Surge Protector (PM 50- UK)/Extension Box", stock |-> 241],
      [name |-> "CD Re-Writable", stock |-> 126],
      [name |-> "CD Recordable LG", stock |-> 44]>>

TARGET_DATE == <<2025, 5, 30>>

StockItem(id, item_name, quantity) ==
    Item(id, 1, "Stationery", Timestamp(datetime(2024, 1, 1)))
        @@ [item_name |-> item_name, quantity |-> quantity]

\* The case folding of ilike, for the names of the stores.
lower(name) ==
    IF name \in {"TP Link", "TP LINK", "tp link"} THEN "tp link" ELSE name

\* The least place of seq that Test holds at, 0 when there is none.
FirstIndex(seq, Test(_)) ==
    IF \E i \in 1..Len(seq) : Test(seq[i])
    THEN CHOOSE i \in 1..Len(seq) :
             Test(seq[i]) /\ \A j \in 1..(i - 1) : ~Test(seq[j])
    ELSE 0

\* lines 53-55, 178-180: Inventory.query.filter(item_name.ilike(name)).first(),
\* as the place of the row.
FindItem(items, name) ==
    FirstIndex(items, LAMBDA item : lower(item.item_name) = lower(name))

DeleteAt(seq, k) == SubSeq(seq, 1, k - 1) \o SubSeq(seq, k + 1, Len(seq))

\* lines 80-87, 199-206: the first initial row of the item is deleted.
DeleteExistingInitial(table, id) ==
    IF FirstIndex(table, LAMBDA t : t.inventory_id = id
                                    /\ t.transaction_type = "initial") = 0
    THEN table
    ELSE DeleteAt(table,
             FirstIndex(table, LAMBDA t : t.inventory_id = id
                                          /\ t.transaction_type = "initial"))

\* lines 94-97, 213-216
OtherTransactions(table, id) ==
    SelectSeq(table, LAMBDA t : t.inventory_id = id
                                /\ t.transaction_type # "initial")

\* lines 100-101, 219-220: current_quantity += transaction.quantity raises
\* TypeError on a quantity that is None.
QuantityRaises(table, id) ==
    \E i \in 1..Len(table) :
        /\ table[i].inventory_id = id
        /\ table[i].transaction_type # "initial"
        /\ table[i].quantity = NULL

\* lines 91-101, 210-220
CurrentQuantity(table, id, stock_quantity) ==
    stock_quantity + SumQuantity(OtherTransactions(table, id))

\* lines 108, 227: transaction_date = datetime(2025, 5, 30)
transaction_date == datetime(2025, 5, 30)

\* lines 109-116, 228-235
NewInitial(id, quantity) ==
    Row(id, "initial", Some(quantity), NULL, Timestamp(transaction_date), NULL)

\* db.session.add(row): the row at its place in timestamp order.
AddRow(table, row) ==
    InsertAt(table,
             Len(SelectSeq(table, LAMBDA t : t.timestamp <= row.timestamp)),
             row)

\* The state of a run of reprocess-stock: the session's view and the
\* counters; created lists the rows added in the session.
Run(items, table, created, processed_count, skipped_count, error_count) ==
    [items |-> items, table |-> table, created |-> created,
     processed_count |-> processed_count, skipped_count |-> skipped_count,
     error_count |-> error_count]

\* lines 78-130, for the item at place k: an exception rolls the session
\* back to the database.
ReprocessFound(run, db, k, stock_quantity) ==
    IF QuantityRaises(run.table, run.items[k].id)
    THEN Run(db.items, db.table, <<>>, run.processed_count, run.skipped_count,
             run.error_count + 1)
    ELSE Run([run.items EXCEPT ![k].quantity =
                  CurrentQuantity(run.table, run.items[k].id, stock_quantity)],
             AddRow(DeleteExistingInitial(run.table, run.items[k].id),
                    NewInitial(run.items[k].id, stock_quantity)),
             Append(run.created, NewInitial(run.items[k].id, stock_quantity)),
             run.processed_count + 1, run.skipped_count, run.error_count)

\* lines 51-75, for the place k of the item found
ReprocessItem(run, db, k, stock_quantity, dry_run) ==
    IF k = 0
    THEN Run(run.items, run.table, run.created, run.processed_count,
             run.skipped_count + 1, run.error_count)
    ELSE IF dry_run
    THEN Run(run.items, run.table, run.created, run.processed_count + 1,
             run.skipped_count, run.error_count)
    ELSE ReprocessFound(run, db, k, stock_quantity)

\* lines 47-130: the loop over the list.
RECURSIVE ReprocessLoop(_, _, _, _)
ReprocessLoop(run, db, list, dry_run) ==
    IF list = <<>> THEN run
    ELSE ReprocessLoop(
             ReprocessItem(run, db, FindItem(run.items, Head(list).name),
                           Head(list).stock, dry_run),
             db, Tail(list), dry_run)

\* What a command leaves: the database, the rows it added to it, and the
\* number of calls of db.session.commit().
Outcome(items, table, created, commits) ==
    [items |-> items, table |-> table, created |-> created, commits |-> commits]

\* lines 132-141
CommitRun(run, db, dry_run) ==
    IF ~dry_run /\ run.processed_count > 0
    THEN Outcome(run.items, run.table, run.created, 1)
    ELSE Outcome(db.items, db.table, <<>>, 0)

\* lines 32-156
reprocess_stock(db, target_date, dry_run) ==
    CommitRun(ReprocessLoop(Run(db.items, db.table, <<>>, 0, 0, 0), db,
                            ITEMS_TO_REPROCESS, dry_run),
              db, dry_run)

\* lines 197-244, for the item at place k
AddFound(db, k, stock_quantity) ==
    IF QuantityRaises(db.table, db.items[k].id)
    THEN Outcome(db.items, db.table, <<>>, 0)
    ELSE Outcome([db.items EXCEPT ![k].quantity =
                      CurrentQuantity(db.table, db.items[k].id, stock_quantity)],
                 AddRow(DeleteExistingInitial(db.table, db.items[k].id),
                        NewInitial(db.items[k].id,
                            CurrentQuantity(db.table, db.items[k].id,
                                            stock_quantity))),
                 <<NewInitial(db.items[k].id,
                       CurrentQuantity(db.table, db.items[k].id, stock_quantity))>>,
                 1)

\* Mutant: the dry run is not told from a run.
AddItem_NoDryRun(db, k, stock_quantity, dry_run) ==
    IF k = 0 THEN Outcome(db.items, db.table, <<>>, 0)
    ELSE AddFound(db, k, stock_quantity)

\* lines 176-195, for the place k of the item found
AddItem(db, k, stock_quantity, dry_run) ==
    IF k = 0 \/ dry_run THEN Outcome(db.items, db.table, <<>>, 0)
    ELSE AddFound(db, k, stock_quantity)

\* lines 164-244
add_single_stock_item(db, item_name, stock_quantity, target_date, dry_run) ==
    AddItem(db, FindItem(db.items, item_name), stock_quantity, dry_run)

NoCommand ==
    [called |-> FALSE, name |-> "", item_name |-> "", stock_quantity |-> 0,
     target_date |-> TARGET_DATE, dry_run |-> FALSE, created |-> <<>>,
     commits |-> 0, runs |-> 0]

(***************************************************************************)
(* The valuation of one item's ledger.  The table holds one row of another *)
(* item from the start; producers add rows of the valued item.             *)
(***************************************************************************)
Init ==
    /\ transactions =
           <<Row(OtherItem, "purchase", Some(50), Some(12), 10, NULL)>>
    /\ inventory = <<Item(ValuedItem, 1, "Stationery", 1),
                     Item(OtherItem, 1, "Stationery", 1)>>
    /\ valuation = NoValuation
    /\ report = NoReport
    /\ window = NoWindow
    /\ calls = <<>>
    /\ cache = <<>>
    /\ response = NoResponse
    /\ command = NoCommand

\* db.session.add(InventoryTransaction(...)) of a producer, and the place the
\* ordered query then returns the row at.
InsertTransaction ==
    /\ Len(RowsOf(transactions, ValuedItem)) < MaxTxns
    /\ \E shape \in TxnShapes, ts \in Times, pos \in 0..Len(transactions) :
           LET row == Row(ValuedItem, shape[1], shape[2], shape[3], ts, shape[4])
           IN  /\ InOrderAt(transactions, pos, row)
               /\ transactions' = InsertAt(transactions, pos, row)
    /\ valuation' = NoValuation
    /\ UNCHANGED <<inventory, report, window, calls, cache, response, command>>

\* One call of the function; what a call that raises would have returned is
\* shown as the valuation of an empty ledger.
Valued(table, inventory_id, start_date, end_date) ==
    IF ValuationRaises(table, inventory_id, start_date, end_date)
    THEN [called |-> TRUE, inventory_id |-> inventory_id,
          start_date |-> start_date, end_date |-> end_date,
          raised |-> TRUE, result |-> ZeroValuation]
    ELSE [called |-> TRUE, inventory_id |-> inventory_id,
          start_date |-> start_date, end_date |-> end_date,
          raised |-> FALSE,
          result |-> calculate_periodic_wac_valuation(
                         table, inventory_id, start_date, end_date)]

Valuate ==
    /\ \E start_date \in WindowStarts, end_date \in WindowEnds :
           /\ start_date <= end_date
           /\ valuation' =
                  Valued(transactions, ValuedItem, start_date, end_date)
    /\ UNCHANGED <<transactions, inventory, report, window,
                    calls, cache, response, command>>

Next == InsertTransaction \/ Valuate

Spec == Init /\ [][Next]_vars


(***************************************************************************)
(* Claims about the valuation, under Spec.                                 *)
(***************************************************************************)

\* Two windows with no time unit between them.
Follows(start_date, end_date) == start_date = end_date + 1

\* C1 (as claimed): the closing_stock of a period is the opening_stock of
\* the period that immediately follows it, for a ledger of any mix of rows
\* and any issue location.
C1_Continuity ==
    valuation.called =>
        \A s \in WindowStarts, e \in WindowEnds :
            s <= e /\ Follows(valuation.start_date, e) =>
                calculate_periodic_wac_valuation(
                    transactions, valuation.inventory_id, s, e).closing_stock
                = valuation.result.opening_stock


\* The locals of the last call.
LastLocals ==
    ValuationLocals(transactions, valuation.inventory_id,
                    valuation.start_date, valuation.end_date)

Returned == valuation.called /\ ~valuation.raised

\* The item valued has no row with timestamp <= end_date.
NoEntries ==
    \A i \in 1..Len(transactions) :
        transactions[i].inventory_id = valuation.inventory_id
            => transactions[i].timestamp > valuation.end_date

\* C5: for an item with no ledger row up to the end of the window the
\* valuation raises nothing and every field of the record is zero.
C5_EmptyLedgerIsZero ==
    valuation.called /\ NoEntries =>
        /\ ~valuation.raised
        /\ valuation.result =
               [opening_stock |-> 0, purchases |-> 0, adjustments |-> 0,
                hq_issues |-> 0, jabi_issues |-> 0, closing_stock |-> 0,
                unit_price |-> DecZero, total_value |-> DecZero,
                cogs |-> DecZero]

\* The item has rows, all of them after the window, and another item has a
\* row inside it.
C5_Witness ==
    /\ valuation.called
    /\ NoEntries
    /\ RowsOf(transactions, valuation.inventory_id) # <<>>
    /\ \E i \in 1..Len(transactions) :
           /\ transactions[i].inventory_id # valuation.inventory_id
           /\ transactions[i].timestamp <= valuation.end_date

\* quantity * unit_price summed over rows, a missing price counting as 0.
RECURSIVE SumValue(_)
SumValue(rows) ==
    IF rows = <<>> THEN 0
    ELSE (IF Head(rows).unit_price = NULL THEN 0
          ELSE Head(rows).quantity[1] * Head(rows).unit_price[1])
         + SumValue(Tail(rows))

\* d is the quotient num / den rounded to the precision of the context.
IsQuotient(d, num, den) ==
    /\ d = DecDiv(DecOfInt(num), DecOfInt(den))
    /\ d.e <= 0
    /\ 2 * Abs(den * d.c - num * Pow10(-d.e)) <= den

ScenarioC6 ==
    /\ RowsOf(transactions, ValuedItem) =
           <<Row(ValuedItem, "initial", Some(100), Some(10), 1, NULL),
             Row(ValuedItem, "purchase", Some(50), Some(12), 15, NULL),
             Row(ValuedItem, "issue", Some(-30), NULL, 20, Some("Headquarters"))>>
    /\ Returned
    /\ valuation.start_date = 1
    /\ valuation.end_date = 31

\* C6: an initial row of the window counts twice in cost_of_goods_available
\* and once in qty_available, a purchase row once in each; the ledger
\* initial +100 at 10 (day 1), purchase +50 at 12 (day 15), issue -30 at
\* Headquarters (day 20) valued over day 1 to 31 gives opening_stock 0,
\* purchases 150, hq_issues 30, closing_stock 120, unit_price 2600/150.
C6_InitialCountedTwice ==
    /\ Returned =>
           LET l == LastLocals
               initials == OfKind(l.txns_during, "initial")
               purchases == OfKind(l.txns_during, "purchase")
           IN  /\ l.qty_available = l.opening_stock_qty
                      + SumQuantity(initials) + SumQuantity(purchases)
               /\ OfKind(l.txns_during, "price_update") = <<>> =>
                      l.cost_of_goods_available =
                          DecAdd(l.opening_stock_value,
                                 DecOfInt(2 * SumValue(initials)
                                          + SumValue(purchases)))
    /\ ScenarioC6 =>
           /\ valuation.result.opening_stock = 0
           /\ valuation.result.purchases = 150
           /\ valuation.result.hq_issues = 30
           /\ valuation.result.closing_stock = 120
           /\ LastLocals.cost_of_goods_available = DecOfInt(2600)
           /\ LastLocals.qty_available = 150
           /\ IsQuotient(valuation.result.unit_price, 2600, 150)

C6_Witness == ScenarioC6

ScenarioC7 ==
    /\ \E day \in {1, 15} :
           RowsOf(transactions, ValuedItem) =
               <<Row(ValuedItem, "initial", Some(100), Some(5), day, NULL),
                 Row(ValuedItem, "price_update", Some(0), Some(8), 20, NULL)>>
    /\ Returned
    /\ valuation.start_date = 16
    /\ valuation.end_date = 31

\* C7: at a price_update row with price p the replay sets
\* cost_of_goods_available to (qty_available so far) * p, whatever the cost
\* basis before the row; 100 units opening at price 5 and a price_update to
\* 8 alone in the window give cost basis 800 and unit_price 8.
C7_PriceUpdateResets ==
    /\ Returned =>
           LET l == LastLocals
               during == l.txns_during
               Stock(k) == SelectSeq(SubSeq(during, 1, k), LAMBDA t :
                               t.transaction_type \in {"initial", "purchase"})
               From(cost) == [cost_of_goods_available |-> cost,
                              qty_available |-> l.opening_stock_qty]
           IN  /\ \A k \in 1..Len(during) :
                      during[k].transaction_type = "price_update" =>
                          \A cost \in {DecZero, DecOfInt(999), l.opening_stock_value} :
                              Replay(From(cost), SubSeq(during, 1, k))
                                      .cost_of_goods_available =
                                  DecMul(DecOfInt(l.opening_stock_qty
                                                  + SumQuantity(Stock(k))),
                                         PriceOrZero(during[k]))
               /\ \A k \in 1..Len(during) :
                      /\ during[k].transaction_type = "price_update"
                      /\ Stock(k) = Stock(Len(during))
                      /\ \A j \in (k + 1)..Len(during) :
                             during[j].transaction_type # "price_update"
                      => l.cost_of_goods_available =
                             DecMul(DecOfInt(l.qty_available),
                                    PriceOrZero(during[k]))
    /\ ScenarioC7 =>
           /\ valuation.result.opening_stock = 100
           /\ LastLocals.opening_stock_value = DecOfInt(500)
           /\ LastLocals.cost_of_goods_available = DecOfInt(800)
           /\ valuation.result.unit_price = DecOfInt(8)

C7_Witness == ScenarioC7

\* The rows of the item valued that are before the window, in the order of
\* the table.
RowsBefore ==
    SelectSeq(transactions, LAMBDA t :
        /\ t.inventory_id = valuation.inventory_id
        /\ t.timestamp < valuation.start_date)

Kinds == {"initial", "purchase", "issue", "price_update", "adjustment"}

\* The quantities of the rows of one kind, summed.
QuantityOfKind(rows, kind) ==
    SumQuantity(SelectSeq(rows, LAMBDA t : t.transaction_type = kind))

\* C18: opening_stock is the sum of the signed quantity of every row of the
\* item before the start of the window, the rows of each of the five kinds
\* counted; it is zero when there is no such row.
C18_OpeningStock ==
    Returned =>
        /\ valuation.result.opening_stock =
               QuantityOfKind(RowsBefore, "initial")
               + QuantityOfKind(RowsBefore, "purchase")
               + QuantityOfKind(RowsBefore, "issue")
               + QuantityOfKind(RowsBefore, "price_update")
               + QuantityOfKind(RowsBefore, "adjustment")
        /\ \A k \in 1..Len(RowsBefore) : RowsBefore[k].transaction_type \in Kinds
        /\ RowsBefore = <<>> => valuation.result.opening_stock = 0

\* Rows of three kinds before the window, an issue and an adjustment among
\* them.
C18_Witness ==
    /\ Returned
    /\ \E i, j, k \in 1..Len(RowsBefore) :
           /\ RowsBefore[i].transaction_type = "issue"
           /\ RowsBefore[j].transaction_type = "adjustment"
           /\ RowsBefore[k].transaction_type \in {"initial", "purchase"}
    /\ valuation.result.opening_stock > 0
    /\ valuation.result.opening_stock < QuantityOfKind(RowsBefore, "initial")
                                        + QuantityOfKind(RowsBefore, "purchase")

\* The places of RowsBefore that can give the opening price.
PricedBefore ==
    {k \in 1..Len(RowsBefore) :
        /\ RowsBefore[k].transaction_type \in {"initial", "purchase", "price_update"}
        /\ RowsBefore[k].unit_price # NULL}

\* C19: the opening unit price is the unit_price of the last row before the
\* window that is an initial, purchase or price_update row with a unit_price
\* (no later row of the kind is before the window, and none has a later
\* timestamp); issue and adjustment rows and rows without a unit_price do
\* not give it; it is zero when there is no such row.  The opening value is
\* the opening quantity times this price.
C19_OpeningPrice ==
    Returned =>
        /\ PricedBefore = {} => LastLocals.last_known_price = DecZero
        /\ PricedBefore # {} =>
               \E k \in PricedBefore :
                   /\ \A j \in PricedBefore :
                          /\ j <= k
                          /\ RowsBefore[j].timestamp <= RowsBefore[k].timestamp
                   /\ LastLocals.last_known_price =
                          DecOfInt(RowsBefore[k].unit_price[1])
        /\ LastLocals.opening_stock_value =
               DecMul(DecOfInt(valuation.result.opening_stock),
                      LastLocals.last_known_price)
        /\ RowsBefore = <<>> => LastLocals.opening_stock_value = DecZero

\* Two priced rows of different price before the window, and after them a
\* row that cannot give the price.
C19_Witness ==
    /\ Returned
    /\ \E i, j \in PricedBefore :
           /\ i < j
           /\ RowsBefore[i].unit_price # RowsBefore[j].unit_price
           /\ j < Len(RowsBefore)
           /\ LastLocals.last_known_price = DecOfInt(RowsBefore[j].unit_price[1])

\* The value of a Decimal that is a whole number.
IntOf(d) == d.c * Pow10(d.e)

\* d is num / den as Decimal gives it, and within half a unit of its last
\* digit of the exact quotient.
IsRoundedQuotient(d, num, den) ==
    /\ d = DecDiv(DecOfInt(num), DecOfInt(den))
    /\ 2 * Abs(den * d.c * Pow10(d.e) - num * Pow10(-d.e)) <= den * Pow10(d.e)

\* C20: unit_price is cost_of_goods_available / qty_available when
\* qty_available is positive after the replay and the opening unit price
\* when it is zero or negative; the call raises nothing, with or without a
\* priced row before the window.
C20_UnitPriceFallback ==
    valuation.called =>
        /\ ~valuation.raised
        /\ LastLocals.qty_available > 0 =>
               /\ LastLocals.cost_of_goods_available.e >= 0
               /\ IsRoundedQuotient(valuation.result.unit_price,
                                    IntOf(LastLocals.cost_of_goods_available),
                                    LastLocals.qty_available)
        /\ LastLocals.qty_available <= 0 =>
               valuation.result.unit_price = LastLocals.last_known_price

\* Nothing is available and the opening price is not zero.
C20_Witness ==
    /\ Returned
    /\ LastLocals.qty_available <= 0
    /\ PricedBefore # {}
    /\ valuation.result.unit_price # DecZero

\* The rows of the item valued that are in the window, in the order of the
\* table.
RowsDuring ==
    SelectSeq(transactions, LAMBDA t :
        /\ t.inventory_id = valuation.inventory_id
        /\ valuation.start_date <= t.timestamp
        /\ t.timestamp <= valuation.end_date)

\* The table with, of the item valued, the purchase and initial rows of the
\* window only.
AdditionsOnly ==
    SelectSeq(transactions, LAMBDA t :
        t.inventory_id = valuation.inventory_id =>
            /\ t.transaction_type \in {"initial", "purchase"}
            /\ valuation.start_date <= t.timestamp
            /\ t.timestamp <= valuation.end_date)

\* C21: purchases is the summed quantity of the purchase rows of the window
\* plus that of the initial rows of the window; the rows of other kinds and
\* the rows before the window do not change it.
C21_Purchases ==
    Returned =>
        /\ valuation.result.purchases =
               QuantityOfKind(RowsDuring, "purchase")
               + QuantityOfKind(RowsDuring, "initial")
        /\ valuation.result.purchases =
               calculate_periodic_wac_valuation(
                   AdditionsOnly, valuation.inventory_id,
                   valuation.start_date, valuation.end_date).purchases

\* A purchase before the window, an initial row and a purchase in it.
C21_Witness ==
    /\ Returned
    /\ \E k \in 1..Len(RowsBefore) : RowsBefore[k].transaction_type = "purchase"
    /\ QuantityOfKind(RowsDuring, "initial") > 0
    /\ QuantityOfKind(RowsDuring, "purchase") > 0
    /\ valuation.result.purchases > QuantityOfKind(RowsDuring, "purchase")

\* The summed quantity of the issues of the window with the location loc.
IssuedSum(loc) ==
    SumQuantity(SelectSeq(RowsDuring, LAMBDA t :
        t.transaction_type = "issue" /\ t.location = loc))

\* hq_issues + jabi_issues + other_issues, from the rows.
IssuedTotal ==
    Abs(IssuedSum(Some("Headquarters"))) + Abs(IssuedSum(Some("Jabi")))
    + Abs(IssuedSum(NULL))

\* C22: hq_issues and jabi_issues are the absolute value of the summed
\* quantity of the window's issues of the location, never negative; the
\* issues with no location are in neither, and are part of the total issued
\* that the closing stock is reduced by and that cogs is the value of.
C22_IssuesByLocation ==
    Returned =>
        /\ valuation.result.hq_issues = Abs(IssuedSum(Some("Headquarters")))
        /\ valuation.result.jabi_issues = Abs(IssuedSum(Some("Jabi")))
        /\ valuation.result.hq_issues >= 0
        /\ valuation.result.jabi_issues >= 0
        /\ LastLocals.total_issued_qty =
               valuation.result.hq_issues + valuation.result.jabi_issues
               + Abs(IssuedSum(NULL))
        /\ valuation.result.closing_stock =
               LastLocals.qty_available - LastLocals.total_issued_qty
               + valuation.result.adjustments
        /\ valuation.result.cogs =
               DecMul(DecOfInt(LastLocals.total_issued_qty),
                      valuation.result.unit_price)

\* An issue of the headquarters and an issue with no location in a window
\* with stock: the second is in cogs and not in hq_issues.
C22_Witness ==
    /\ Returned
    /\ valuation.result.hq_issues > 0
    /\ IssuedSum(NULL) < 0
    /\ LastLocals.total_issued_qty > valuation.result.hq_issues
    /\ valuation.result.jabi_issues = 0
    /\ valuation.result.cogs # DecZero

\* C23: closing_stock is the opening quantity plus the initial and purchase
\* quantities of the window, less the issues of the two locations and of
\* no location, plus the signed sum of the adjustments of the window.
C23_ClosingStock ==
    Returned =>
        /\ LastLocals.qty_available =
               valuation.result.opening_stock
               + QuantityOfKind(RowsDuring, "initial")
               + QuantityOfKind(RowsDuring, "purchase")
        /\ valuation.result.adjustments = QuantityOfKind(RowsDuring, "adjustment")
        /\ valuation.result.closing_stock =
               valuation.result.opening_stock
               + QuantityOfKind(RowsDuring, "initial")
               + QuantityOfKind(RowsDuring, "purchase")
               - IssuedTotal
               + QuantityOfKind(RowsDuring, "adjustment")

\* A purchase, an issue and a negative adjustment in the window.
C23_Witness ==
    /\ Returned
    /\ QuantityOfKind(RowsDuring, "purchase") > 0
    /\ IssuedTotal > 0
    /\ valuation.result.adjustments < 0
    /\ valuation.result.closing_stock > 0

\* C24: total_value is closing_stock times the returned unit_price, and
\* cogs the total issued times the same unit_price, as Decimal multiplies.
C24_ValueAndCogs ==
    Returned =>
        /\ valuation.result.total_value =
               DecMul(DecOfInt(valuation.result.closing_stock),
                      valuation.result.unit_price)
        /\ valuation.result.cogs =
               DecMul(DecOfInt(IssuedTotal), valuation.result.unit_price)

\* Stock left and stock issued, at a price of the window that is not the
\* opening price.
C24_Witness ==
    /\ Returned
    /\ valuation.result.closing_stock > 0
    /\ IssuedTotal > 0
    /\ valuation.result.unit_price # LastLocals.last_known_price
    /\ valuation.result.total_value # DecZero
    /\ valuation.result.cogs # valuation.result.total_value

\* The table with the rows at the places k and k + 1 in each other's place.
Swapped(table, k) ==
    [i \in 1..Len(table) |->
        IF i = k THEN table[k + 1] ELSE IF i = k + 1 THEN table[k] ELSE table[i]]

\* The quantity fields of a returned dict.
QuantityFields(dict) ==
    <<dict.opening_stock, dict.purchases, dict.adjustments, dict.hq_issues,
      dict.jabi_issues, dict.closing_stock>>

\* The places of two neighbouring rows of one timestamp.
TiedPlaces ==
    {k \in 1..(Len(transactions) - 1) :
        transactions[k].timestamp = transactions[k + 1].timestamp}

\* C28: the quantity fields of the record are those of the record for the
\* table with two neighbouring rows of one timestamp in the other order.
\* Every order of the rows of one timestamp is a table the store can
\* return, so the fields are the same in all of them.
C28_TieOrderIndependent ==
    Returned =>
        \A k \in TiedPlaces :
            QuantityFields(valuation.result) =
                QuantityFields(calculate_periodic_wac_valuation(
                    Swapped(transactions, k), valuation.inventory_id,
                    valuation.start_date, valuation.end_date))

\* Two rows of the item of one timestamp whose order changes the unit
\* price and none of the quantity fields.
C28_Witness ==
    /\ Returned
    /\ \E k \in TiedPlaces :
           /\ transactions[k].inventory_id = valuation.inventory_id
           /\ transactions[k + 1].inventory_id = valuation.inventory_id
           /\ valuation.result.unit_price #
                  calculate_periodic_wac_valuation(
                      Swapped(transactions, k), valuation.inventory_id,
                      valuation.start_date, valuation.end_date).unit_price
    /\ valuation.result.closing_stock > 0


(***************************************************************************)
(* The date-window functions.                                              *)
(***************************************************************************)
Years == 2016..2030
Quarters == -4..5

InitDates ==
    /\ transactions = <<>>
    /\ inventory = <<>>
    /\ valuation = NoValuation
    /\ report = NoReport
    /\ window = NoWindow
    /\ calls = <<>>
    /\ cache = <<>>
    /\ response = NoResponse
    /\ command = NoCommand

GetQuarterlyDates ==
    /\ \E year \in Years, quarter \in Quarters :
           LET raised == IndexRaises(quarter_starts(year), quarter - 1)
               dates == IF raised THEN <<NoDate, NoDate>>
                        ELSE get_quarterly_dates(year, quarter)
           IN  window' = [called |-> TRUE, function |-> "get_quarterly_dates",
                          year |-> year, quarter |-> quarter, raised |-> raised,
                          start |-> dates[1], end |-> dates[2]]
    /\ UNCHANGED <<transactions, inventory, valuation, report,
                    calls, cache, response, command>>

GetYearlyDates ==
    /\ \E year \in Years :
           LET dates == get_yearly_dates(year)
           IN  window' = [called |-> TRUE, function |-> "get_yearly_dates",
                          year |-> year, quarter |-> 0, raised |-> FALSE,
                          start |-> dates[1], end |-> dates[2]]
    /\ UNCHANGED <<transactions, inventory, valuation, report,
                    calls, cache, response, command>>

NextDates == GetQuarterlyDates \/ GetYearlyDates

SpecDates == InitDates /\ [][NextDates]_vars

IsDate(d) == ValidDate(d.year, d.month, d.day)

\* The calendar bounds of the four quarters: <<first month, last month, its
\* last day>>.
QuarterBounds == <<<<1, 3, 31>>, <<4, 6, 30>>, <<7, 9, 30>>, <<10, 12, 31>>>>

\* C8: for a quarter 1..4 get_quarterly_dates returns January 1 to March 31,
\* April 1 to June 30, July 1 to September 30, October 1 to December 31 of
\* the year; the start is not after the end and the windows of two quarters
\* of the year do not overlap.
C8_QuarterBoundaries ==
    window.called /\ window.function = "get_quarterly_dates"
                  /\ window.quarter \in 1..4 =>
        LET b == QuarterBounds[window.quarter]
        IN  /\ ~window.raised
            /\ window.start = datetime(window.year, b[1], 1)
            /\ window.end = datetime(window.year, b[2], b[3])
            /\ IsDate(window.start) /\ IsDate(window.end)
            /\ b[3] = DaysInMonth(window.year, b[2])
            /\ DtLeq(window.start, window.end)
            /\ \A q \in (1..4) \ {window.quarter} :
                   LET other == get_quarterly_dates(window.year, q)
                   IN  \/ DtLess(window.end, other[1])
                       \/ DtLess(other[2], window.start)

C8_Witness ==
    /\ window.called /\ window.function = "get_quarterly_dates"
    /\ window.year = 2023 /\ window.quarter = 2
    /\ window.start = datetime(2023, 4, 1)
    /\ window.end = datetime(2023, 6, 30)

\* C9: get_yearly_dates returns January 1 and December 31 of the year, in a
\* leap year as in any other.
C9_YearBoundaries ==
    window.called /\ window.function = "get_yearly_dates" =>
        /\ ~window.raised
        /\ window.start = datetime(window.year, 1, 1)
        /\ window.end = datetime(window.year, 12, DaysInMonth(window.year, 12))
        /\ window.end.day = 31
        /\ IsDate(window.start) /\ IsDate(window.end)

C9_Witness ==
    /\ window.called /\ window.function = "get_yearly_dates"
    /\ IsLeap(window.year)
    /\ window.year = 2024
    /\ window.start = datetime(2024, 1, 1)
    /\ window.end = datetime(2024, 12, 31)


(***************************************************************************)
(* Reports over an inventory.  A store is up to MaxItems items, each with  *)
(* a category, a creation day and one of the ledgers below, or the same    *)
(* with items of empty ledger up to one more than the report's item limit. *)
(***************************************************************************)
MaxItems == 3

CategoryNames == <<"Stationery", "Electronics">>

\* The ledger of the spec's scenario; two ledgers of two purchases and an
\* issue, whose average cost is no whole number; a priced and an unpriced
\* initial row with an issue; a purchase whose quantity is missing.
SampleLedgers(item) ==
    <<<<Row(item, "initial", Some(100), Some(10), 1, NULL),
        Row(item, "purchase", Some(50), Some(12), 15, NULL),
        Row(item, "issue", Some(-30), NULL, 20, Some("Headquarters"))>>,
      <<Row(item, "purchase", Some(3), Some(10), 1, NULL),
        Row(item, "purchase", Some(4), Some(12), 15, NULL),
        Row(item, "issue", Some(-2), NULL, 20, Some("Jabi"))>>,
      <<Row(item, "purchase", Some(7), Some(5), 1, NULL),
        Row(item, "purchase", Some(6), Some(7), 15, NULL),
        Row(item, "issue", Some(-2), NULL, 15, Some("Headquarters"))>>,
      <<Row(item, "initial", Some(100), Some(5), 1, NULL),
        Row(item, "initial", Some(30), NULL, 15, NULL),
        Row(item, "issue", Some(-30), NULL, 20, NULL)>>,
      <<Row(item, "purchase", NULL, Some(12), 15, NULL)>>>>

\* rows added to a table in timestamp order, each after the rows of its
\* timestamp.
RECURSIVE InsertRows(_, _)
InsertRows(table, rows) ==
    IF rows = <<>> THEN table
    ELSE LET row == Head(rows)
             pos == Len(SelectSeq(table, LAMBDA t : t.timestamp <= row.timestamp))
         IN  InsertRows(InsertAt(table, pos, row), Tail(rows))

\* The table of items 1..n, item i with the ledger choice[i] of the samples.
RECURSIVE TableOf(_, _)
TableOf(choice, n) ==
    IF n = 0 THEN <<>>
    ELSE InsertRows(TableOf(choice, n - 1), SampleLedgers(n)[choice[n]])

CreationDays == {1, 20}

\* size items: item i <= n of category[i], the others of the first category;
\* all created on day 1 but the last, created on last_created.
Store(size, n, category, last_created) ==
    [i \in 1..size |->
        Item(i,
             IF i <= n THEN category[i] ELSE 1,
             CategoryNames[IF i <= n THEN category[i] ELSE 1],
             IF i = size THEN last_created ELSE 1)]

\* A store of up to MaxItems items, each with a ledger; or a store over the
\* report's limit by one item, of which three have a ledger, 5000 were
\* created by day 15 and 5000 are of the first category.
InitReport ==
    /\ \/ \E n \in 0..MaxItems :
          \E category \in [1..n -> 1..Len(CategoryNames)],
             last_created \in CreationDays,
             choice \in [1..n -> 1..Len(SampleLedgers(1))] :
              /\ inventory = Store(n, n, category, last_created)
              /\ transactions = TableOf(choice, n)
       \/ /\ inventory = Store(VolumeLimit + 1, 3, <<1, 2, 1>>, 20)
          /\ transactions = TableOf(<<1, 2, 3>>, 3)
    /\ valuation = NoValuation
    /\ report = NoReport
    /\ window = NoWindow
    /\ calls = <<>>
    /\ cache = <<>>
    /\ response = NoResponse
    /\ command = NoCommand

FilterChoices ==
    [category_id : {NULL, Some(1), Some(2)}, item_id : {NULL, Some(1)}]

\* One request per store: generate_report writes nothing, so a second
\* request would find the store of the first.
GenerateReport ==
    /\ ~report.called
    /\ \E start_dt \in WindowStarts, end_dt \in WindowEnds, filters \in FilterChoices :
           /\ start_dt <= end_dt
           /\ report' = [called |-> TRUE, start_dt |-> start_dt, end_dt |-> end_dt,
                         filters |-> filters,
                         result |-> generate_report(inventory, transactions,
                                                    start_dt, end_dt, filters)]
    /\ UNCHANGED <<transactions, inventory, valuation, window,
                    calls, cache, response, command>>

NextReport == GenerateReport

SpecReport == InitReport /\ [][NextReport]_vars


(***************************************************************************)
(* Claims about generate_report, under SpecReport.                         *)
(***************************************************************************)

\* The places in the inventory of the items the request resolves: created
\* by end_dt and matching the filters given.
ResolvedSet ==
    {i \in 1..Len(inventory) :
        /\ inventory[i].created_at <= report.end_dt
        /\ report.filters.category_id # NULL =>
               inventory[i].category_id = report.filters.category_id[1]
        /\ report.filters.item_id # NULL =>
               inventory[i].id = report.filters.item_id[1]}

ReportReturned == report.called /\ report.result.outcome = "returned"

\* Sums as Python's sum() makes them over Decimals, in the order given.
RECURSIVE DecSum(_)
DecSum(values) ==
    IF values = <<>> THEN DecZero
    ELSE DecAdd(DecSum(SubSeq(values, 1, Len(values) - 1)), values[Len(values)])

\* The field f of every item record of the report, category after category
\* in the order report_data holds them.
RECURSIVE RecordValues(_, _)
RecordValues(order, f) ==
    IF order = <<>> THEN <<>>
    ELSE LET records == report.result.report_data[Head(order)]
         IN  [i \in 1..Len(records) |-> ToDecimal(f, records[i][f])]
             \o RecordValues(Tail(order), f)

CategoryValues(f) ==
    [k \in 1..Len(report.result.order) |->
        report.result.category_totals[report.result.order[k]][f]]

\* C2 (as claimed): after generate_report returns for a non-empty item set,
\* each field of grand_totals is the sum of the field over the category
\* totals, which is its sum over the item records.
C2_TotalsAgree ==
    ReportReturned /\ ResolvedSet # {} /\ Len(inventory) <= MaxItems =>
        \A f \in TotalFields :
            /\ report.result.grand_totals[f] = DecSum(CategoryValues(f))
            /\ DecSum(CategoryValues(f)) =
                   DecSum(RecordValues(report.result.order, f))

\* C3: a request resolving more than 5000 items is rejected with the size
\* error before any item is valued and returns no report; one resolving 5000
\* items or fewer is not rejected for its size.
C3_VolumeLimit ==
    report.called =>
        /\ Cardinality(ResolvedSet) > VolumeLimit =>
               /\ report.result.outcome = "abort_413"
               /\ report.result.valuations = 0
               /\ report.result.report_data = EmptyDict
               /\ report.result.category_totals = EmptyDict
               /\ report.result.grand_totals = EmptyDict
        /\ Cardinality(ResolvedSet) <= VolumeLimit =>
               report.result.outcome # "abort_413"

C3_Witness ==
    /\ report.called
    /\ Cardinality(ResolvedSet) = VolumeLimit + 1
    /\ report.result.outcome = "abort_413"

\* C4: over an empty resolved item set generate_report returns three empty
\* mappings and raises nothing, whatever the window and the filters.
C4_EmptyItemSet ==
    report.called /\ ResolvedSet = {} =>
        /\ report.result.outcome = "returned"
        /\ report.result.valuations = 0
        /\ report.result.report_data = EmptyDict
        /\ report.result.category_totals = EmptyDict
        /\ report.result.grand_totals = EmptyDict

\* The store has items, and the creation day or a filter leaves none.
C4_Witness ==
    /\ report.called
    /\ ResolvedSet = {}
    /\ Len(inventory) > 0
    /\ report.filters.category_id # NULL
    /\ report.result.outcome = "returned"

\* The valuation of the item at place i raises.
FailsAt(i) ==
    ValuationRaises(transactions, inventory[i].id, report.start_dt, report.end_dt)

\* C10 (as claimed): when the valuation of one item fails, the report is
\* not aborted: every other resolved item is valued and has its record, and
\* no record of the failing item is in the report.
C10_FailureIsolated ==
    /\ report.called
    /\ Cardinality(ResolvedSet) <= VolumeLimit
    /\ \E i \in ResolvedSet : FailsAt(i)
    => /\ report.result.outcome = "returned"
       /\ \A i \in ResolvedSet :
              LET name == inventory[i].category_name
                  listed ==
                      /\ name \in DOMAIN report.result.report_data
                      /\ \E k \in 1..Len(report.result.report_data[name]) :
                             report.result.report_data[name][k].item_id
                                 = inventory[i].id
              IN  listed <=> ~FailsAt(i)


\* The items the request resolves, in the order of the query.
ResolvedItems ==
    SelectSeq(inventory, LAMBDA item :
        /\ item.created_at <= report.end_dt
        /\ report.filters.category_id # NULL =>
               item.category_id = report.filters.category_id[1]
        /\ report.filters.item_id # NULL =>
               item.id = report.filters.item_id[1])

\* The ids of items, and those of the resolved items of the category, in
\* the order of the query.
IdsOf(items) == [k \in 1..Len(items) |-> items[k].id]

ResolvedIds(category_name) ==
    IdsOf(SelectSeq(ResolvedItems, LAMBDA item :
              item.category_name = category_name))

\* The places among the resolved items of the items of the category.
PlacesOf(category_name) ==
    {i \in 1..Len(ResolvedItems) :
        ResolvedItems[i].category_name = category_name}

\* C25: the report has a list for each category of a resolved item and for
\* no other; the list of a category holds one record for each resolved item
\* of the category and none else, so every resolved item has one record, in
\* the list of its category, and no other item has one; the categories are
\* in the order of their first resolved items.
C25_RecordSet ==
    ReportReturned =>
        /\ DOMAIN report.result.report_data =
               {ResolvedItems[i].category_name : i \in 1..Len(ResolvedItems)}
        /\ \A c \in DOMAIN report.result.report_data :
               [k \in 1..Len(report.result.report_data[c]) |->
                   report.result.report_data[c][k].item_id] = ResolvedIds(c)
        /\ \A c \in DOMAIN report.result.report_data :
               \A k \in 1..Len(report.result.report_data[c]) :
                   report.result.report_data[c][k].category_name = c
        /\ {report.result.order[k] : k \in 1..Len(report.result.order)} =
               DOMAIN report.result.report_data
        /\ \A k, m \in 1..Len(report.result.order) :
               k < m =>
                   \E i \in PlacesOf(report.result.order[k]) :
                       \A j \in PlacesOf(report.result.order[m]) : i < j

\* Two categories, the first of them not the first by name or id, with an
\* item of the store left out of the report.
C25_Witness ==
    /\ ReportReturned
    /\ report.result.order = <<"Electronics", "Stationery">>
    /\ Len(ResolvedItems) = 2
    /\ Len(inventory) = 3

\* total + values[lo] + ... + values[hi], added one after the other as +=
\* adds them.
RECURSIVE SumFrom(_, _, _, _)
SumFrom(total, values, lo, hi) ==
    IF lo > hi THEN total
    ELSE IF lo = hi THEN DecAdd(total, values[lo])
    ELSE CHOOSE sum \in
             {SumFrom(half, values, (lo + hi) \div 2 + 1, hi) :
                 half \in {SumFrom(total, values, lo, (lo + hi) \div 2)}} :
             TRUE

\* The field f of the records of a category, as Decimals.
FieldOf(category_name, f) ==
    [k \in 1..Len(report.result.report_data[category_name]) |->
        ToDecimal(f, report.result.report_data[category_name][k][f])]

\* C26: the totals of each category are, field by field, the values of the
\* records of the category's own items added one after the other to zero:
\* no record of another category and no earlier grand total is in them.
C26_CategoryTotalsFresh ==
    ReportReturned =>
        \A c \in DOMAIN report.result.category_totals :
            \A f \in TotalFields :
                report.result.category_totals[c][f] =
                    SumFrom(DecZero, FieldOf(c, f), 1,
                            Len(report.result.report_data[c]))

\* The second category opens after records with stock and value of the
\* first were added to the grand totals.
C26_Witness ==
    /\ ReportReturned
    /\ Len(report.result.order) = 2
    /\ report.result.category_totals[report.result.order[1]].closing_stock # DecZero
    /\ report.result.category_totals[report.result.order[2]].closing_stock # DecZero
    /\ report.result.category_totals[report.result.order[2]].total_value
           # report.result.grand_totals.total_value
    /\ report.result.report_data[report.result.order[1]][1].item_id = 1


(***************************************************************************)
(* Requests to the report views.  The store is empty, or two items with    *)
(* ledgers, or one item whose ledger has a row with no quantity, or one    *)
(* item more than the report's limit.  The clock stands in February and    *)
(* March of 2025.                                                          *)
(***************************************************************************)
MaxReports == 1

\* An account as admin, the same account with the role taken away, and a
\* second admin.
Users == {User(1, TRUE), User(1, FALSE), User(2, TRUE)}

\* February 10 at noon, February 28 at midnight, March 1 at noon.
Moments ==
    <<Timestamp(datetime(2025, 2, 10)) + 1,
      Timestamp(datetime(2025, 2, 28)),
      Timestamp(datetime(2025, 3, 1)) + 1>>

\* The values of the calls of datetime.now() of one request (none before
\* the one made ahead of it): all at one moment, or the last one later.
ClockAt(k) == <<Moments[k], Moments[k], Moments[k]>>

ClockPassing == <<Moments[1], Moments[1], Moments[3]>>

FormOf(report_type, month, week_range, year, quarter, category_id) ==
    [report_type |-> report_type, month |-> month, week_range |-> week_range,
     year |-> year, quarter |-> quarter, category_id |-> category_id,
     item_id |-> NULL]

Monthly(month) == FormOf("monthly", month, NULL, NULL, NULL, NULL)

\* The forms posted, each with the clock of its request.
Posts ==
    {<<Monthly(month), ClockAt(1)>> :
        month \in {NULL, Some(<<2025, 1>>), Some(<<2025, 2>>), Some(<<2025, 3>>),
                   Some(<<2025, 13>>)}}
    \cup {<<Monthly(Some(<<2025, 2>>)), ClockPassing>>,
          <<Monthly(Some(<<2025, 2>>)), ClockAt(2)>>,
          <<Monthly(Some(<<2025, 2>>)), ClockAt(3)>>,
          <<Monthly(Some(<<2025, 3>>)), ClockAt(3)>>}
    \cup {<<FormOf("weekly", NULL, range, NULL, NULL, NULL), ClockAt(1)>> :
        range \in {NULL,
                   Some(<<<<2025, 2, 3>>>>),
                   Some(<<<<2025, 2, 3>>, <<2025, 2, 9>>>>),
                   Some(<<<<2025, 2, 3>>, <<2025, 2, 30>>>>),
                   Some(<<<<2025, 2, 3>>, <<2025, 2, 9>>, <<2025, 2, 10>>>>)}}
    \cup {<<FormOf("quarterly", NULL, NULL, Some(2025), quarter, NULL), ClockAt(1)>> :
        quarter \in {NULL, Some(0), Some(1), Some(2), Some(5)}}
    \cup {<<FormOf("quarterly", NULL, NULL, NULL, Some(1), NULL), ClockAt(1)>>}
    \cup {<<FormOf("yearly", NULL, NULL, year, NULL, NULL), ClockAt(1)>> :
        year \in {NULL, Some(0), Some(2024), Some(2026)}}
    \cup {<<FormOf("yearly", NULL, NULL, Some(2024), NULL, Some(2)), ClockAt(1)>>,
          <<FormOf("daily", Some(<<2025, 1>>), NULL, NULL, NULL, NULL), ClockAt(1)>>}

InitRequests ==
    /\ \/ /\ inventory = <<>>
          /\ transactions = <<>>
       \/ /\ inventory = Store(2, 2, <<1, 2>>, 1)
          /\ transactions = TableOf(<<1, 2>>, 2)
       \/ /\ inventory = Store(1, 1, <<1>>, 1)
          /\ transactions = TableOf(<<5>>, 1)
       \/ /\ inventory = Store(VolumeLimit + 1, 3, <<1, 2, 1>>, 20)
          /\ transactions = TableOf(<<1, 2, 3>>, 3)
    /\ valuation = NoValuation
    /\ report = NoReport
    /\ window = NoWindow
    /\ calls = <<>>
    /\ cache = <<>>
    /\ response = NoResponse
    /\ command = NoCommand

InventoryReport ==
    /\ \E user \in Users, post \in Posts \cup {<<NoForm, ClockAt(1)>>} :
           \E result \in {inventory_report(
                              Request("inventory_report",
                                      IF post[1] = NoForm THEN "GET" ELSE "POST",
                                      user, post[1], 0, post[2]),
                              inventory, transactions, cache)} :
               /\ Len(result.cache) <= MaxReports
               /\ response' = result.response
               /\ cache' = result.cache
    /\ UNCHANGED <<transactions, inventory, valuation, report, window,
                   calls, command>>

ViewReport ==
    /\ \E user \in Users, report_id \in 1..(Len(cache) + 1) :
           response' = view_report(
               Request("view_report", "GET", user, NoForm, report_id, <<0, 0, 0>>),
               cache)
    /\ UNCHANGED <<transactions, inventory, valuation, report, window,
                   calls, cache, command>>

DownloadExcelReport ==
    /\ \E user \in Users, report_id \in 1..(Len(cache) + 1) :
           response' = download_excel_report(
               Request("download_excel_report", "GET", user, NoForm, report_id,
                       <<0, 0, 0>>),
               cache)
    /\ UNCHANGED <<transactions, inventory, valuation, report, window,
                   calls, cache, command>>

NextRequests == InventoryReport \/ ViewReport \/ DownloadExcelReport

SpecRequests == InitRequests /\ [][NextRequests]_vars


(***************************************************************************)
(* Claims about the report views, under SpecRequests.                      *)
(***************************************************************************)

\* The last request was a report form posted by an admin.
AdminPost ==
    /\ response.called
    /\ response.request.view = "inventory_report"
    /\ response.request.method = "POST"
    /\ response.request.user.is_admin

\* The window the form of the last request asks for.
AskedWindow == DeriveWindow(response.request.form)

\* The form of the last request gives a window, and it starts after the
\* moment the request is handled at.
StartsInFuture ==
    /\ AskedWindow.raised = ""
    /\ Timestamp(AskedWindow.start_dt) > response.request.clock[1]

\* C11: every window passed to generate_report starts and ends no later
\* than the moment of the call; a request whose window starts in the future
\* is refused and generate_report is not called; an end in the future is
\* replaced by the clock.
C11_WindowNotInFuture ==
    AdminPost =>
        /\ \A k \in 1..Len(response.generated) :
               /\ response.generated[k].start_dt <= response.generated[k].now
               /\ response.generated[k].end_dt <= response.generated[k].now
        /\ StartsInFuture =>
               /\ response.generated = <<>>
               /\ response.flash # <<>>
               /\ response.flash[1].category = "danger"
        /\ \A k \in 1..Len(response.generated) :
               Timestamp(AskedWindow.end_dt) > response.request.clock[3] =>
                   response.generated[k].end_dt = response.request.clock[3]

\* A window that started and whose end, still to come, was replaced.
C11_Witness ==
    /\ AdminPost
    /\ Len(response.generated) = 1
    /\ Timestamp(AskedWindow.start_dt) < response.request.clock[1]
    /\ Timestamp(AskedWindow.end_dt) > response.request.clock[3]
    /\ response.generated[1].end_dt = response.request.clock[3]
    /\ response.generated[1].start_dt = Timestamp(AskedWindow.start_dt)

\* The texts of a week range that are dates.
Parseable(range) ==
    {k \in 1..Len(range) : ValidDate(range[k][1], range[k][2], range[k][3])}

\* The window specification of the last request is invalid: no month, a week
\* range that is not two dates, an unknown report type, or a start in the
\* future.
InvalidWindow(req) ==
    \/ req.form.report_type = "monthly" /\ req.form.month = NULL
    \/ /\ req.form.report_type = "weekly"
       /\ \/ req.form.week_range = NULL
          \/ Len(req.form.week_range[1]) # 2
          \/ Parseable(req.form.week_range[1]) # {1, 2}
    \/ req.form.report_type \notin {"monthly", "weekly", "quarterly", "yearly"}
    \/ /\ DeriveWindow(req.form).raised = ""
       /\ Timestamp(DeriveWindow(req.form).start_dt) > req.clock[1]

\* The response tells the caller of an error: a redirect to the form with a
\* message of category danger that carries the text of the exception.
ErrorSurfaced(resp) ==
    /\ resp.status = 302
    /\ resp.target = "reports.inventory_report"
    /\ resp.flash # <<>>
    /\ resp.flash[1].category = "danger"
    /\ resp.flash[1].detail # ""
    /\ resp.body = NULL

\* C12: a report request of an admin with an invalid window specification
\* ends in an error told to the caller, calls generate_report not once and
\* leaves the report cache as it was.
C12_InvalidWindowRejected ==
    [][/\ response'.called
       /\ response'.request.view = "inventory_report"
       /\ response'.request.method = "POST"
       /\ response'.request.user.is_admin
       /\ InvalidWindow(response'.request)
       => /\ ErrorSurfaced(response')
          /\ response'.generated = <<>>
          /\ cache' = cache]_vars

\* A request for a month that has not begun, with a report in the cache.
C12_Witness ==
    /\ AdminPost
    /\ StartsInFuture
    /\ cache # <<>>
    /\ response.generated = <<>>

\* What the caller can tell responses apart by, the text of the exception
\* left aside: status, target, and the category and fixed text of the
\* message.
ResponseKind(resp) ==
    [status |-> resp.status, target |-> resp.target,
     flash |-> [k \in 1..Len(resp.flash) |->
                   <<resp.flash[k].category, resp.flash[k].text>>]]

\* The request of the last response resolved more items than the limit.
OverLimit ==
    /\ AdminPost
    /\ Len(response.generated) = 1
    /\ Len(ResolveItems(inventory, response.generated[1].end_dt,
                        response.generated[1].filters)) > VolumeLimit

\* C13 (as claimed): the response to a request over the size limit differs
\* in kind from the response to an invalid window and from the response to
\* an internal error.
C13_VolumeLimitDistinct ==
    OverLimit =>
        /\ ResponseKind(response) #
               ResponseKind(ErrorResponse(response.request, "ValueError", <<>>))
        /\ ResponseKind(response) #
               ResponseKind(ErrorResponse(response.request, "TypeError", <<>>))

\* C15: a request of a logged-in user who is no admin ends in a redirect:
\* generate_report is not called, the report cache stays as it was and the
\* response carries no cached report.
C15_NonAdminRedirected ==
    [][response'.called /\ ~response'.request.user.is_admin
       => /\ response'.status = 302
          /\ response'.target \in {"home.admin_dashboard", "home.user_dashboard"}
          /\ response'.generated = <<>>
          /\ response'.body = NULL
          /\ cache' = cache]_vars

\* The account asks for a report it cached when it was an admin.
C15_Witness ==
    /\ response.called
    /\ ~response.request.user.is_admin
    /\ response.request.view \in {"view_report", "download_excel_report"}
    /\ get_for_user(cache, response.request.report_id,
                    response.request.user.id) # <<>>
    /\ response.status = 302

(***************************************************************************)
(* Runs of the commands.  The store has the first items of the list, under *)
(* names of either case, and an item the list does not name; each item has *)
(* one of the ledgers below.                                               *)
(***************************************************************************)
MaxRuns == 2

\* No row; an initial row; an initial row and an issue; two initial rows
\* and a purchase; an issue with no quantity.
CommandLedgers(item) ==
    <<<<>>,
      <<Row(item, "initial", Some(20), Some(10),
            Timestamp(datetime(2025, 1, 10)), NULL)>>,
      <<Row(item, "initial", Some(20), Some(10),
            Timestamp(datetime(2025, 1, 10)), NULL),
        Row(item, "issue", Some(-5), NULL,
            Timestamp(datetime(2025, 6, 3)), Some("Headquarters"))>>,
      <<Row(item, "initial", Some(20), Some(10),
            Timestamp(datetime(2025, 1, 10)), NULL),
        Row(item, "initial", Some(10), NULL,
            Timestamp(datetime(2025, 5, 30)), NULL),
        Row(item, "purchase", Some(8), Some(12),
            Timestamp(datetime(2025, 6, 3)), NULL)>>,
      <<Row(item, "issue", NULL, NULL,
            Timestamp(datetime(2025, 6, 3)), Some("Jabi"))>>>>

\* The table of items 1..n, item i with the ledger choice[i] of the above.
RECURSIVE CommandTable(_, _)
CommandTable(choice, n) ==
    IF n = 0 THEN <<>>
    ELSE InsertRows(CommandTable(choice, n - 1), CommandLedgers(n)[choice[n]])

\* Inventory.item_name of the items of the store.
StoreNames == <<"tp link", "CD Re-Writable", "Printer Toner">>

\* The texts of --target-date: the default and another date.
TargetDates == {TARGET_DATE, <<2025, 6, 30>>}

InitCommands ==
    /\ \E n \in 0..Len(StoreNames) :
           \E choice \in [1..n -> 1..Len(CommandLedgers(1))] :
               /\ inventory = [i \in 1..n |-> StockItem(i, StoreNames[i], 0)]
               /\ transactions = CommandTable(choice, n)
    /\ valuation = NoValuation
    /\ report = NoReport
    /\ window = NoWindow
    /\ calls = <<>>
    /\ cache = <<>>
    /\ response = NoResponse
    /\ command = NoCommand

\* The run of a command and what it left.
CommandRun(name, item_name, stock_quantity, target_date, dry_run, outcome) ==
    [called |-> TRUE, name |-> name, item_name |-> item_name,
     stock_quantity |-> stock_quantity, target_date |-> target_date,
     dry_run |-> dry_run, created |-> outcome.created,
     commits |-> outcome.commits, runs |-> command.runs + 1]

ReprocessStock ==
    /\ command.runs < MaxRuns
    /\ \E target_date \in TargetDates, dry_run \in BOOLEAN :
           \E outcome \in {reprocess_stock([items |-> inventory,
                                            table |-> transactions],
                                           target_date, dry_run)} :
               /\ inventory' = outcome.items
               /\ transactions' = outcome.table
               /\ command' = CommandRun("reprocess-stock", "", 0, target_date,
                                        dry_run, outcome)
    /\ UNCHANGED <<valuation, report, window, calls, cache, response>>

AddStockItem ==
    /\ command.runs < MaxRuns
    /\ \E item_name \in {"TP Link", "CD Re-Writable", "Stapler"},
          target_date \in TargetDates, dry_run \in BOOLEAN :
           \E outcome \in {add_single_stock_item([items |-> inventory,
                                                  table |-> transactions],
                                                 item_name, 15, target_date,
                                                 dry_run)} :
               /\ inventory' = outcome.items
               /\ transactions' = outcome.table
               /\ command' = CommandRun("add-stock-item", item_name, 15,
                                        target_date, dry_run, outcome)
    /\ UNCHANGED <<valuation, report, window, calls, cache, response>>

NextCommands == ReprocessStock \/ AddStockItem

SpecCommands == InitCommands /\ [][NextCommands]_vars


(***************************************************************************)
(* Claims about the commands, under SpecCommands.                          *)
(***************************************************************************)

\* C16: a run with --dry-run, of either command, leaves every ledger row
\* and every item quantity as it was, adds no row and commits nothing,
\* whether the items it names are in the store or not.
C16_DryRunChangesNothing ==
    [][command'.called /\ command'.dry_run
       => /\ transactions' = transactions
          /\ inventory' = inventory
          /\ command'.created = <<>>
          /\ command'.commits = 0]_vars

\* The item named in the last run is in the store.
NamedItemExists ==
    \E i \in 1..Len(inventory) :
        lower(inventory[i].item_name) = lower(command.item_name)

\* A dry run of add-stock-item for an item of the store that has an initial
\* row, or a dry run of reprocess-stock over a store with an item of the
\* list.
C16_Witness ==
    /\ command.called
    /\ command.dry_run
    /\ \/ /\ command.name = "add-stock-item"
          /\ NamedItemExists
          /\ \E k \in 1..Len(transactions) :
                 transactions[k].transaction_type = "initial"
       \/ /\ command.name = "reprocess-stock"
          /\ Len(inventory) > 0

\* C17 (as claimed): every initial row a run creates has the timestamp that
\* --target-date gives.
C17_TargetDateUsed ==
    command.called =>
        \A k \in 1..Len(command.created) :
            command.created[k].timestamp =
                Timestamp(strptime(command.target_date))


\* The summed quantity of the ledger rows of the item.
LedgerQuantity(id) == SumQuantity(RowsOf(transactions, id))

\* The stored quantity of the item.
StoredQuantity(id) ==
    inventory[CHOOSE i \in 1..Len(inventory) : inventory[i].id = id].quantity

\* C29 (as claimed): after a run without --dry-run that committed, the
\* stored quantity of every item it processed is the summed quantity of the
\* item's ledger rows, whatever the ledger was before.
C29_QuantityIsLedgerSum ==
    command.called /\ ~command.dry_run /\ command.commits > 0 =>
        \A k \in 1..Len(command.created) :
            StoredQuantity(command.created[k].inventory_id) =
                LedgerQuantity(command.created[k].inventory_id)


(***************************************************************************)
(* Invocations of the valuation in flight at once.  Each worker calls the  *)
(* function for an item and a window: the query of lines 15-30 reads the   *)
(* ledger into the local transactions, the rest of the function works on   *)
(* the locals and returns.  The steps of the workers interleave.           *)
(***************************************************************************)
MaxWorkers == 2

Workers == 1..MaxWorkers

Idle ==
    [pc |-> "idle", inventory_id |-> 0, start_date |-> 0, end_date |-> 0,
     transactions |-> <<>>, returned |-> NoValuation]

InitConcurrent ==
    /\ \E choice \in [1..2 -> 1..Len(SampleLedgers(1))] :
           /\ inventory = Store(2, 2, <<1, 2>>, 1)
           /\ transactions = TableOf(choice, 2)
    /\ valuation = NoValuation
    /\ report = NoReport
    /\ window = NoWindow
    /\ calls = [w \in Workers |-> Idle]
    /\ cache = <<>>
    /\ response = NoResponse
    /\ command = NoCommand

\* Mutant: the locals are module-level names, those of the first worker.
CallLocals_Shared(all, w) == all[1]

\* The locals of the invocation of worker w: each call has its own.
CallLocals(all, w) == all[w]

\* lines 7-30: the call and its query.
Query(w) ==
    /\ calls[w].pc # "queried"
    /\ \E inventory_id \in {ValuedItem, OtherItem},
          start_date \in WindowStarts, end_date \in WindowEnds :
           /\ start_date <= end_date
           /\ calls' = [calls EXCEPT ![w] =
                  [pc |-> "queried", inventory_id |-> inventory_id,
                   start_date |-> start_date, end_date |-> end_date,
                   transactions |->
                       FetchTransactions(transactions, inventory_id, end_date),
                   returned |-> NoValuation]]
    /\ UNCHANGED <<transactions, inventory, valuation, report, window,
                   cache, response, command>>

\* lines 32-102: the rest of the function, over the locals.
Return(w) ==
    /\ calls[w].pc = "queried"
    /\ calls' = [calls EXCEPT ![w] =
           [pc |-> "returned", inventory_id |-> calls[w].inventory_id,
            start_date |-> calls[w].start_date, end_date |-> calls[w].end_date,
            transactions |-> CallLocals(calls, w).transactions,
            returned |-> Valued(CallLocals(calls, w).transactions,
                                calls[w].inventory_id, calls[w].start_date,
                                calls[w].end_date)]]
    /\ UNCHANGED <<transactions, inventory, valuation, report, window,
                   cache, response, command>>

NextConcurrent == \E w \in Workers : Query(w) \/ Return(w)

SpecConcurrent == InitConcurrent /\ [][NextConcurrent]_vars

\* C14: no step of an invocation changes the ledger or the items, and every
\* invocation returns, whatever the steps of the others around it, what
\* the function returns for its item and window over the ledger when run
\* alone.
C14_ReadOnlyStateless ==
    [][/\ transactions' = transactions
       /\ inventory' = inventory
       /\ \A w \in Workers :
              calls'[w].pc = "returned" =>
                  calls'[w].returned =
                      Valued(transactions, calls'[w].inventory_id,
                             calls'[w].start_date, calls'[w].end_date)]_vars

\* A worker returned a valuation while the other, called for another item,
\* had made its query and not returned.
C14_Witness ==
    /\ calls[1].pc = "queried"
    /\ calls[2].pc = "returned"
    /\ calls[1].inventory_id # calls[2].inventory_id
    /\ calls[1].transactions # <<>>
    /\ ~calls[2].returned.raised
    /\ calls[2].returned.result # ZeroValuation

(***************************************************************************)
(* Two consecutive windows of the date-window derivation, valued one after *)
(* the other over one ledger.  The rows of the ledger are written at       *)
(* midnight or at noon of days around the ends of a month, a quarter and a *)
(* year.  calls lists, for each of the two windows, the window and the     *)
(* txns_during of the valuation called with it.                            *)
(***************************************************************************)

\* The days rows are written on.
EntryDays ==
    {datetime(2024, 2, 29), datetime(2024, 3, 30), datetime(2024, 3, 31),
     datetime(2024, 4, 1), datetime(2024, 12, 31), datetime(2025, 1, 1)}

\* timestamp=import_date.replace(hour=0, ...) and .replace(hour=12, ...) of
\* the stock import: midnight and noon of a day.
EntryMoments ==
    {Timestamp(d) : d \in EntryDays} \cup {Timestamp(d) + 1 : d \in EntryDays}

WindowYears == {2024, 2025}

InitWindows ==
    /\ \E first \in EntryMoments, second \in EntryMoments \cup {0} :
           /\ first > second
           /\ transactions =
                  InsertRows(<<>>,
                      IF second = 0
                      THEN <<Row(ValuedItem, "purchase", Some(5), Some(10),
                                 first, NULL)>>
                      ELSE <<Row(ValuedItem, "purchase", Some(5), Some(10),
                                 first, NULL),
                             Row(ValuedItem, "issue", Some(-2), NULL, second,
                                 Some("Headquarters"))>>)
    /\ inventory = <<Item(ValuedItem, 1, "Stationery",
                          Timestamp(datetime(2024, 1, 1)))>>
    /\ valuation = NoValuation
    /\ report = NoReport
    /\ window = NoWindow
    /\ calls = <<>>
    /\ cache = <<>>
    /\ response = NoResponse
    /\ command = NoCommand

\* lines 15-30, 51 of the valuation called with the window (views.py 585):
\* the rows counted in the activity of the period.
DuringOf(table, w) ==
    [start_dt |-> w.start_dt, end_dt |-> w.end_dt,
     txns_during |->
         TxnsDuring(FetchTransactions(table, ValuedItem, Timestamp(w.end_dt)),
                    Timestamp(w.start_dt))]

\* The windows of two forms, valued in turn.
ValueBoth(first, second) ==
    /\ DeriveWindow(first).raised = ""
    /\ DeriveWindow(second).raised = ""
    /\ calls' = <<DuringOf(transactions, DeriveWindow(first)),
                  DuringOf(transactions, DeriveWindow(second))>>
    /\ UNCHANGED <<transactions, inventory, valuation, report, window,
                   cache, response, command>>

ConsecutiveQuarters ==
    \E year \in WindowYears, quarter \in 1..3 :
        ValueBoth(FormOf("quarterly", NULL, NULL, Some(year), Some(quarter), NULL),
                  FormOf("quarterly", NULL, NULL, Some(year), Some(quarter + 1),
                         NULL))

ConsecutiveYears ==
    \E year \in WindowYears :
        ValueBoth(FormOf("yearly", NULL, NULL, Some(year), NULL, NULL),
                  FormOf("yearly", NULL, NULL, Some(year + 1), NULL, NULL))

ConsecutiveMonths ==
    \E year \in WindowYears, month \in 1..12 :
        ValueBoth(Monthly(Some(<<year, month>>)),
                  Monthly(Some(IF month < 12 THEN <<year, month + 1>>
                               ELSE <<year + 1, 1>>)))

NextWindows == ConsecutiveQuarters \/ ConsecutiveYears \/ ConsecutiveMonths

SpecWindows == InitWindows /\ [][NextWindows]_vars

\* The row is among the rows counted in the period of the call.
CountedIn(row, call) ==
    \E j \in 1..Len(call.txns_during) : call.txns_during[j] = row

\* C27 (as claimed): a row written from the start of the first of two
\* consecutive windows to the end of the second is in the activity of one
\* of the two periods and not of the other, the rows written during the
\* last day of the first window among them.
C27_WindowsCoverEntries ==
    calls # <<>> =>
        \A k \in 1..Len(transactions) :
            /\ Timestamp(calls[1].start_dt) <= transactions[k].timestamp
            /\ transactions[k].timestamp <= Timestamp(calls[2].end_dt)
            => (CountedIn(transactions[k], calls[1])
                    /= CountedIn(transactions[k], calls[2]))

====
